---- MODULE Spec2Model ----
(***************************************************************************)
(* ParkPulse: booking time-window validation and cost calculation.         *)
(*                                                                         *)
(* Text is modelled as a sequence of one-character strings, so that the    *)
(* regular expression, split(':'), Number and parseInt act on characters.  *)
(* Money is modelled in integer cents; a JavaScript number that is NaN (or *)
(* undefined where only isNaN looks at it) is the value NaN below.         *)
(***************************************************************************)
EXTENDS Bags, Integers, Sequences, FiniteSets, TLC

(* ------------------------------------------------------------------ *)
(* Bounds                                                             *)
(* ------------------------------------------------------------------ *)

\* longest text the parser specifications enumerate exhaustively
MaxLen == 5

\* the characters of the exhaustively enumerated texts
Alphabet == {"0", "2", "5", "9", ":", "x"}

(* ------------------------------------------------------------------ *)
(* JavaScript values and text primitives                              *)
(* ------------------------------------------------------------------ *)

NaN == -1000000

isNaN(v) == v = NaN

Digits == {"0", "1", "2", "3", "4", "5", "6", "7", "8", "9"}

IsDigit(c) == c \in Digits

DigitVal(c) ==
    CASE c = "0" -> 0 [] c = "1" -> 1 [] c = "2" -> 2 [] c = "3" -> 3
      [] c = "4" -> 4 [] c = "5" -> 5 [] c = "6" -> 6 [] c = "7" -> 7
      [] c = "8" -> 8 [] c = "9" -> 9
      [] c = "a" -> 10 [] c = "b" -> 11 [] c = "c" -> 12

HexDigits == Digits \cup {"a", "b", "c"}

\* value of a non-empty run of digits of the given radix
RECURSIVE RadixVal(_, _)
RadixVal(s, radix) ==
    IF Len(s) = 0 THEN 0
    ELSE RadixVal(SubSeq(s, 1, Len(s) - 1), radix) * radix + DigitVal(s[Len(s)])

AllIn(s, set) == \A i \in 1..Len(s) : s[i] \in set

\* Number(text) for texts over digits, ':' and letters: the empty text is 0,
\* a run of decimal digits is its value, 0x... is a hexadecimal literal,
\* anything else is NaN.
Number(s) ==
    IF Len(s) = 0 THEN 0
    ELSE IF AllIn(s, Digits) THEN RadixVal(s, 10)
    ELSE IF Len(s) >= 3 /\ s[1] = "0" /\ s[2] = "x" /\ AllIn(SubSeq(s, 3, Len(s)), HexDigits)
         THEN RadixVal(SubSeq(s, 3, Len(s)), 16)
    ELSE NaN

\* length of the longest prefix of decimal digits
RECURSIVE DigitPrefixLen(_)
DigitPrefixLen(s) ==
    IF Len(s) = 0 \/ ~IsDigit(s[1]) THEN 0 ELSE 1 + DigitPrefixLen(Tail(s))

\* parseInt(text, 10): the leading digits, NaN when there are none
parseInt(s) ==
    IF DigitPrefixLen(s) = 0 THEN NaN
    ELSE RadixVal(SubSeq(s, 1, DigitPrefixLen(s)), 10)

\* text.split(':')
RECURSIVE Split(_)
Split(s) ==
    IF \A i \in 1..Len(s) : s[i] # ":" THEN <<s>>
    ELSE LET k == CHOOSE i \in 1..Len(s) : s[i] = ":" /\ \A j \in 1..(i - 1) : s[j] # ":"
         IN  <<SubSeq(s, 1, k - 1)>> \o Split(SubSeq(s, k + 1, Len(s)))
\* the pattern with a two-digit hour only
MatchesTimePattern_TwoDigitHour(s) ==
    Len(s) = 5 /\ IsDigit(s[1]) /\ IsDigit(s[2]) /\ s[3] = ":" /\ IsDigit(s[4]) /\ IsDigit(s[5])

\* /^\d{1,2}:\d{2}$/.test(text)
MatchesTimePattern(s) ==
    \/ Len(s) = 4 /\ IsDigit(s[1]) /\ s[2] = ":" /\ IsDigit(s[3]) /\ IsDigit(s[4])
    \/ Len(s) = 5 /\ IsDigit(s[1]) /\ IsDigit(s[2]) /\ s[3] = ":" /\ IsDigit(s[4]) /\ IsDigit(s[5])

(* ------------------------------------------------------------------ *)
(* ConfirmationModal.tsx: timeToMinutes                               *)
(* ------------------------------------------------------------------ *)
\* timeToMinutes without the range check on hours and minutes
timeToMinutes_NoRangeCheck(timeStr) ==
    IF Len(timeStr) = 0 \/ ~MatchesTimePattern(timeStr) THEN NaN
    ELSE LET parts   == Split(timeStr)
             hours   == Number(parts[1])
             minutes == Number(parts[2])
         IN  IF isNaN(hours) \/ isNaN(minutes) THEN NaN ELSE hours * 60 + minutes


timeToMinutes(timeStr) ==
    IF Len(timeStr) = 0 \/ ~MatchesTimePattern(timeStr) THEN NaN
    ELSE LET parts   == Split(timeStr)
             hours   == Number(parts[1])
             minutes == Number(parts[2])
         IN  IF isNaN(hours) \/ isNaN(minutes) \/ hours < 0 \/ hours > 23
                \/ minutes < 0 \/ minutes > 59
             THEN NaN
             ELSE hours * 60 + minutes

(* ------------------------------------------------------------------ *)
(* ListingForm: timeToMinutes                                         *)
(* ------------------------------------------------------------------ *)

ListingForm_timeToMinutes(time) ==
    LET parts == Split(time)
    IN  IF Len(parts) = 2
        THEN LET hours   == parseInt(parts[1])
                 minutes == parseInt(parts[2])
             IN  IF ~isNaN(hours) /\ ~isNaN(minutes) /\ hours >= 0 /\ hours <= 23
                    /\ minutes >= 0 /\ minutes <= 59
                 THEN (hours * 60) + minutes
                 ELSE -1
        ELSE -1

(* ------------------------------------------------------------------ *)
(* Number.prototype.toFixed(2)                                        *)
(* ------------------------------------------------------------------ *)

\* the decimal digit d as a character
DigitChar(d) ==
    CASE d = 0 -> "0" [] d = 1 -> "1" [] d = 2 -> "2" [] d = 3 -> "3" [] d = 4 -> "4"
      [] d = 5 -> "5" [] d = 6 -> "6" [] d = 7 -> "7" [] d = 8 -> "8" [] d = 9 -> "9"

\* the text of an amount of n >= 0 cents, with the sign given apart (toFixed
\* writes -0.00 for a negative number that rounds to zero)
Fixed2Text(negative, n) ==
    (IF negative THEN "-" ELSE "") \o ToString(n \div 100) \o "."
        \o DigitChar((n % 100) \div 10) \o DigitChar(n % 10)
\* toFixed2 cutting the digits after the second decimal instead of rounding
toFixed2_Truncates(num, den, tieUp) ==
    LET a == IF num < 0 THEN -num ELSE num
    IN  Fixed2Text(num < 0, a \div den)

\* (num/den).toFixed(2) where num/den is the exact amount in cents, den > 0.
\* toFixed returns the hundredth nearest to the double it is applied to.  The
\* double differs from num/den by the rounding error of the multiplication,
\* which is far smaller than the distance of num/den to the next half cent
\* unless num/den lies exactly on a half cent; there the error decides the
\* direction, and tieUp is that direction.
toFixed2(num, den, tieUp) ==
    LET a == IF num < 0 THEN -num ELSE num
        q == a \div den
        r == a % den
        n == IF 2 * r > den \/ (2 * r = den /\ tieUp) THEN q + 1 ELSE q
    IN  Fixed2Text(num < 0, n)

(* ------------------------------------------------------------------ *)
(* ConfirmationModal.tsx: calculateTotalCost                          *)
(* ------------------------------------------------------------------ *)
\* calculateTotalCost without the test endMinutes <= startMinutes
calculateTotalCost_NoOrderCheck(rate, startTime, endTime, tieUp) ==
    LET startMinutes == timeToMinutes(startTime)
        endMinutes   == timeToMinutes(endTime)
    IN  IF isNaN(startMinutes) \/ isNaN(endMinutes)
        THEN "0.00"
        ELSE toFixed2(rate * (endMinutes - startMinutes), 60, tieUp)

\* calculateTotalCost with the duration taken from the end to the start
calculateTotalCost_SwappedDuration(rate, startTime, endTime, tieUp) ==
    LET startMinutes == timeToMinutes(startTime)
        endMinutes   == timeToMinutes(endTime)
    IN  IF isNaN(startMinutes) \/ isNaN(endMinutes) \/ endMinutes <= startMinutes
        THEN "0.00"
        ELSE LET durationMinutes == startMinutes - endMinutes
             IN  toFixed2(rate * durationMinutes, 60, tieUp)

\* rate is in cents per hour; durationHours = durationMinutes / 60 and
\* total = rate * durationHours are kept as the fraction rate*minutes/60
calculateTotalCost(rate, startTime, endTime, tieUp) ==
    LET startMinutes == timeToMinutes(startTime)
        endMinutes   == timeToMinutes(endTime)
    IN  IF isNaN(startMinutes) \/ isNaN(endMinutes) \/ endMinutes <= startMinutes
        THEN "0.00"
        ELSE LET durationMinutes == endMinutes - startMinutes
             IN  toFixed2(rate * durationMinutes, 60, tieUp)

(* ------------------------------------------------------------------ *)
(* ProfileView: calculateTotalCost                                    *)
(* ------------------------------------------------------------------ *)

MinutesPerDay == 1440

\* element i of the destructured array: undefined (NaN to isNaN) when absent
NumberAt(parts, i) == IF i <= Len(parts) THEN Number(parts[i]) ELSE NaN

\* The local clock of the browser.  Instants and local times are minutes
\* counted from the local midnight that starts the day of the first
\* new Date().  A clock is [at, shift, endDay]: from the instant at on, local
\* time is shift minutes ahead of what it was before (60 when summer time
\* begins, -60 when it ends, 0 when the clock does not change), and endDay is
\* the day of the second new Date(): 0, or 1 when midnight falls between the
\* two calls.
\* LocalTime(t): the local time of an instant
LocalTime(clock, t) == IF t < clock.at THEN t ELSE t + clock.shift

\* UTC(t): the instant of a local time; a local time that the change skips
\* or repeats is read with the offset in force before the change
UTC(clock, local) ==
    IF local < clock.at + (IF clock.shift > 0 THEN clock.shift ELSE 0)
    THEN local
    ELSE local - clock.shift

\* new Date() on the given day followed by setHours(hours, minutes, 0, 0)
Date_setHours(clock, day, hours, minutes) ==
    UTC(clock, day * MinutesPerDay + hours * 60 + minutes)

\* date.setDate(date.getDate() + 1)
Date_setDateNext(clock, t) == UTC(clock, LocalTime(clock, t) + MinutesPerDay)

\* endDate.getTime() - startDate.getTime(), in minutes; the four numbers are
\* not NaN
ProfileView_durationMinutes(startHours, startMinutes, endHours, endMinutes, clock) ==
    LET startDate == Date_setHours(clock, 0, startHours, startMinutes)
        endDate0  == Date_setHours(clock, clock.endDay, endHours, endMinutes)
        endDate   == IF endDate0 <= startDate THEN Date_setDateNext(clock, endDate0)
                     ELSE endDate0
    IN  endDate - startDate

\* durationHours = durationMillis / 3600000 and rate * durationHours are kept
\* as the fraction rate*minutes/60; no step of the try block throws
ProfileView_calculateTotalCost(rate, startTime, endTime, tieUp, clock) ==
    LET startHours   == NumberAt(Split(startTime), 1)
        startMinutes == NumberAt(Split(startTime), 2)
        endHours     == NumberAt(Split(endTime), 1)
        endMinutes   == NumberAt(Split(endTime), 2)
    IN  IF isNaN(startHours) \/ isNaN(startMinutes) \/ isNaN(endHours) \/ isNaN(endMinutes)
        THEN "N/A"
        ELSE toFixed2(rate * ProfileView_durationMinutes(startHours, startMinutes,
                                 endHours, endMinutes, clock), 60, tieUp)

(* ------------------------------------------------------------------ *)
(* Rates as text: parseFloat and Number.prototype.toString            *)
(* ------------------------------------------------------------------ *)

\* the relational operators of JavaScript: false when an operand is NaN
JsLess(a, b) == ~isNaN(a) /\ ~isNaN(b) /\ a < b

JsLessEq(a, b) == ~isNaN(a) /\ ~isNaN(b) /\ a <= b

JsGreater(a, b) == ~isNaN(a) /\ ~isNaN(b) /\ a > b

JsGreaterEq(a, b) == ~isNaN(a) /\ ~isNaN(b) /\ a >= b

\* parseFloat(text) in cents, for texts of an optional '-', digits and at
\* most two decimals: the longest prefix that is a number, NaN without one
parseFloat(s) ==
    LET negative == Len(s) > 0 /\ s[1] = "-"
        body     == IF negative THEN Tail(s) ELSE s
        intLen   == DigitPrefixLen(body)
        rest     == SubSeq(body, intLen + 1, Len(body))
        decimals == IF Len(rest) > 0 /\ rest[1] = "." THEN Tail(rest) ELSE <<>>
        decLen   == DigitPrefixLen(decimals)
        cents    == IF decLen = 0 THEN 0
                    ELSE IF decLen = 1 THEN 10 * DigitVal(decimals[1])
                    ELSE 10 * DigitVal(decimals[1]) + DigitVal(decimals[2])
        value    == 100 * RadixVal(SubSeq(body, 1, intLen), 10) + cents
    IN  IF intLen = 0 /\ decLen = 0 THEN NaN
        ELSE IF negative THEN -value ELSE value

\* the decimal digits of n >= 0
RECURSIVE IntText(_)
IntText(n) ==
    IF n < 10 THEN <<DigitChar(n)>> ELSE IntText(n \div 10) \o <<DigitChar(n % 10)>>

\* rate.toString() of a rate of c >= 0 cents: no trailing zero decimals
RateToString(c) ==
    IF c % 100 = 0 THEN IntText(c \div 100)
    ELSE IF c % 10 = 0 THEN IntText(c \div 100) \o <<".", DigitChar((c % 100) \div 10)>>
    ELSE IntText(c \div 100) \o <<".", DigitChar((c % 100) \div 10), DigitChar(c % 10)>>

(* ------------------------------------------------------------------ *)
(* State                                                              *)
(* ------------------------------------------------------------------ *)

VARIABLES
    \* one call of each time parser on one text
    text,            \* the argument
    parsed,          \* whether the parsers have run on it
    modalMinutes,    \* result of ConfirmationModal's timeToMinutes
    formMinutes      \* result of ListingForm's timeToMinutes

parseVars == <<text, parsed, modalMinutes, formMinutes>>

VARIABLES
    \* one call of each cost calculator on one (rate, start, end)
    costRate,        \* the hourly rate, in cents
    costStart,       \* the start text
    costEnd,         \* the end text
    costed,          \* whether the calculators have run
    modalCost,       \* result of ConfirmationModal's calculateTotalCost
    dashCost,        \* result of ProfileView's calculateTotalCost
    costClock,       \* the local clock ProfileView's new Date() reads
    modalTie,        \* whether toFixed rounded an exact half cent up, in the
    dashTie          \* modal's call and in ProfileView's

VARIABLES
    \* a second call of each cost calculator, at the same rate
    costStart2,
    costEnd2,
    costClock2,
    costed2,
    modalCost2,
    dashCost2

cost2Vars == <<costStart2, costEnd2, costClock2, costed2, modalCost2, dashCost2>>

costVars ==
    <<costRate, costStart, costEnd, costed, modalCost, dashCost, costClock,
      modalTie, dashTie, cost2Vars>>

VARIABLES
    \* the listing store (one listing): what addListing / updateListing wrote
    listing,
    \* ProfileView and its ListingForm
    formOpen,          \* isFormVisible
    formStartTime,     \* startTime
    formEndTime,       \* endTime
    formRate,          \* rate, a text
    formOtherFilled,   \* address, city, state, zipCode, country, date and
                       \* contactEmail are all non-empty
    formIsLoading,     \* isLoading
    formError,         \* validationError
    submitPending,     \* the listing data of the onSubmit call in flight
    \* ChatView / ListingCard and their ConfirmationModal
    modalOpen,         \* listingToBook # null, isModalOpen
    modalListing,      \* the listing prop
    selectedStartTime,
    selectedEndTime,
    validationError,
    isLoading,
    outstanding,       \* onConfirm calls of the mounted modal that have not settled
    orphans,           \* onConfirm calls in flight whose modal is unmounted
    \* the calls the last step made on the component's props
    calls,
    \* handleSubmit or handleConfirmClick when the last step was one of these
    \* two validating handlers, empty otherwise
    lastHandler,
    \* how an onConfirm call settled in the last step: resolved, rejected, or
    \* none when no call settled
    settlement

formVars ==
    <<formOpen, formStartTime, formEndTime, formRate, formOtherFilled,
      formIsLoading, formError, submitPending>>

modalVars ==
    <<modalOpen, modalListing, selectedStartTime, selectedEndTime,
      validationError, isLoading, outstanding, orphans>>

appVars == <<listing, formVars, modalVars, calls, lastHandler, settlement>>

VARIABLES
    \* the owner's dashboard: the booking requests on one listing and date
    bookingSpan,       \* request id -> [startTime, endTime]
    bookingStatus,     \* request id -> pending, confirmed or denied
    activeTab,         \* ProfileView's activeTab
    cardLoading,       \* request id -> isLoading of its BookingRequestCard
    cardCalls,         \* request id -> the onApprove / onDeny calls its card has
                       \* made since it mounted
    approvePhase,      \* request id -> where its approveBooking call is
    denyPhase          \* request id -> where its denyBooking call is

approvalVars ==
    <<bookingSpan, bookingStatus, activeTab, cardLoading, cardCalls, approvePhase,
      denyPhase>>

VARIABLES
    \* one call of an email generator of geminiService
    emailSite,         \* the generator called
    emailInput,        \* its arguments
    emailPhase,        \* idle, awaiting (at the await of generateContent) or settled
    emailResponse,     \* what generateContent settled with
    emailPromise       \* the promise the generator returned

emailVars == <<emailSite, emailInput, emailPhase, emailResponse, emailPromise>>

VARIABLES
    \* one BookingCard of the booker's dashboard
    bookingCardMounted,  \* the card is rendered
    cardBookingStatus,   \* booking.status, the prop
    isConfirmingCancel,
    isCanceling,
    isConfirmingDelete,
    isDeleting,
    cancelPending,       \* the card's onCancel call has not settled
    deletePending,       \* the card's onDelete call has not settled
    bookingCardCalls     \* the calls the last step made on the card's props

bookingCardVars ==
    <<bookingCardMounted, cardBookingStatus, isConfirmingCancel, isCanceling,
      isConfirmingDelete, isDeleting, cancelPending, deletePending, bookingCardCalls>>

VARIABLES
    \* ChatView: the search assistant
    chatMessages,        \* messages, the parent's chat log
    chatLoading,         \* isLoading
    locationFilled,      \* one of city, state, zipCode is not empty
    showPermissionModal,
    permissionStatus,
    hasGeolocation,      \* navigator.geolocation exists
    browserPermission,   \* the browser's geolocation permission for the site
    watching,            \* navigator.permissions' query resolved, onchange is set
    searchesInFlight,    \* the findParkingSpots calls that have not settled
    nextSearch,          \* the number of the next executeSearch call that goes ahead
    geoPending           \* the getCurrentPosition requests that have not called
                         \* back, each with the isLoading and permissionStatus of
                         \* the render its callbacks were made in

chatVars ==
    <<chatMessages, chatLoading, locationFilled, showPermissionModal,
      permissionStatus, hasGeolocation, browserPermission, watching,
      searchesInFlight, nextSearch, geoPending>>

VARIABLES
    \* Toast
    toastMounted,    \* the parent renders a Toast
    toastShown,      \* the number of the message and type it shows, 0 for none
    toastVisible,    \* visible
    autoTimer,       \* the message the pending 4 s timer was set for, 0 for none
    closePending,    \* the pending 300 ms timeouts of handleClose, each with
                     \* the message it was started for
    onCloseCalls,    \* the onClose calls of the closes started for each message
    lastClose,       \* the last onClose call: the message its close was started
                     \* for and the message shown when it fired
    nextToast        \* the number of the next message

toastVars ==
    <<toastMounted, toastShown, toastVisible, autoTimer, closePending,
      onCloseCalls, lastClose, nextToast>>

vars == <<parseVars, costVars, appVars, approvalVars, emailVars, bookingCardVars, chatVars, toastVars>>

\* what the steps of each part leave alone
outsideApp == <<parseVars, costVars, approvalVars, emailVars, bookingCardVars, chatVars, toastVars>>

outsideParse == <<costVars, appVars, approvalVars, emailVars, bookingCardVars, chatVars, toastVars>>

outsideCost == <<parseVars, appVars, approvalVars, emailVars, bookingCardVars, chatVars, toastVars>>

outsideApproval == <<parseVars, costVars, appVars, emailVars, bookingCardVars, chatVars, toastVars>>

outsideEmail == <<parseVars, costVars, appVars, approvalVars, bookingCardVars, chatVars, toastVars>>

outsideBookingCard == <<parseVars, costVars, appVars, approvalVars, emailVars, chatVars, toastVars>>

outsideChat == <<parseVars, costVars, appVars, approvalVars, emailVars, bookingCardVars, toastVars>>

outsideToast == <<parseVars, costVars, appVars, approvalVars, emailVars, bookingCardVars, chatVars>>

(* ------------------------------------------------------------------ *)
(* Inputs                                                             *)
(* ------------------------------------------------------------------ *)

\* the texts the specification names, beyond the enumerated ones
ExampleTexts ==
    { <<>>,
      <<"a", "b", "c">>,
      <<"0", "9", "0", "0">>,
      <<"0", "9", ":", "0", "0">>,
      <<"9", ":", "0", "0">>,
      <<"2", "3", ":", "5", "9">>,
      <<"2", "4", ":", "0", "0">>,
      <<"9", ":", "6", "0">>,
      <<"9", ":", "5">>,
      <<"0", "9", ":", "0", "0", "x">>,
      <<"0", "9", ":", "0", "0", ":", "0", "0">>,
      <<"1", "7", ":", "3", "0">> }

\* n < 100 written with two digits
Pad2(n) == <<DigitChar(n \div 10), DigitChar(n % 10)>>

\* the zero-padded text HH:MM of a minute count
FormatHHMM(n) == Pad2(n \div 60) \o <<":">> \o Pad2(n % 60)

\* the texts that denote the minute count n: HH:MM, and H:MM before 10:00
TextsOfMinutes(n) ==
    {FormatHHMM(n)} \cup (IF n < 600 THEN {Tail(FormatHHMM(n))} ELSE {})

MinutesOfDay == 0..1439

\* every text of the shape H:MM or HH:MM with hour in 0..23 and minute in 0..59
ValidTimeTexts == UNION { TextsOfMinutes(n) : n \in MinutesOfDay }

AllTexts ==
    UNION { [1..n -> Alphabet] : n \in 0..MaxLen } \cup ExampleTexts \cup ValidTimeTexts

\* the variables of the parser specification, when another one runs
ParseIdle ==
    /\ text = <<>>
    /\ parsed = FALSE
    /\ modalMinutes = NaN
    /\ formMinutes = NaN

\* a day on which the clock does not change and midnight does not fall
\* between the two new Date()
PlainClock == [at |-> 0, shift |-> 0, endDay |-> 0]

\* the clocks: no change, or summer time beginning or ending at 02:00 of the
\* day of the call or of the next day; with or without midnight between the
\* two new Date()
Clocks ==
    { [at |-> 0, shift |-> 0, endDay |-> e] : e \in {0, 1} }
        \cup { [at |-> d * MinutesPerDay + 120, shift |-> s, endDay |-> 0] :
                  d \in {0, 1}, s \in {-60, 60} }

\* null, where a text or nothing is held
null == <<>>

\* owner-side booking requests on the one listing and date, capped
MaxRequests == 2

RequestIds == 1..MaxRequests

\* the null of a card's isLoading, which is 'approve', 'deny' or null
NotLoading == "null"

\* the dashboard with no booking request, when another specification runs
ApprovalIdle ==
    /\ bookingSpan = [id \in RequestIds |-> [startTime |-> <<>>, endTime |-> <<>>]]
    /\ bookingStatus = [id \in RequestIds |-> "denied"]
    /\ activeTab = "bookings"
    /\ cardLoading = [id \in RequestIds |-> NotLoading]
    /\ cardCalls = [id \in RequestIds |-> <<>>]
    /\ approvePhase = [id \in RequestIds |-> "idle"]
    /\ denyPhase = [id \in RequestIds |-> "idle"]

\* a promise that has not settled, and the response of a call not yet made
PendingPromise == [state |-> "pending", value |-> null]

NoResponse == [failed |-> FALSE, hasText |-> FALSE, text |-> <<>>]

\* no email generator has been called
EmailIdle ==
    /\ emailSite = "none"
    /\ emailInput = null
    /\ emailPhase = "idle"
    /\ emailResponse = NoResponse
    /\ emailPromise = PendingPromise

\* no BookingCard is rendered
BookingCardIdle ==
    /\ bookingCardMounted = FALSE
    /\ cardBookingStatus = "pending"
    /\ isConfirmingCancel = FALSE
    /\ isCanceling = FALSE
    /\ isConfirmingDelete = FALSE
    /\ isDeleting = FALSE
    /\ cancelPending = FALSE
    /\ deletePending = FALSE
    /\ bookingCardCalls = <<>>

\* ChatView is not in use
ChatIdle ==
    /\ chatMessages = <<>>
    /\ chatLoading = FALSE
    /\ locationFilled = FALSE
    /\ showPermissionModal = FALSE
    /\ permissionStatus = "prompt"
    /\ hasGeolocation = FALSE
    /\ browserPermission = "prompt"
    /\ watching = FALSE
    /\ searchesInFlight = {}
    /\ nextSearch = 1
    /\ geoPending = EmptyBag

\* no Toast was shown
ToastIdle ==
    /\ toastMounted = FALSE
    /\ toastShown = 0
    /\ toastVisible = FALSE
    /\ autoTimer = 0
    /\ closePending = EmptyBag
    /\ onCloseCalls = <<>>
    /\ lastClose = [for |-> 0, shown |-> 0]
    /\ nextToast = 1

\* the variables of the second call, when there is none
Cost2Idle ==
    /\ costStart2 = <<>>
    /\ costEnd2 = <<>>
    /\ costClock2 = PlainClock
    /\ costed2 = FALSE
    /\ modalCost2 = ""
    /\ dashCost2 = ""

\* the variables of the cost specification, when another one runs
CostIdle ==
    /\ costClock = PlainClock
    /\ modalTie = FALSE
    /\ dashTie = FALSE
    /\ Cost2Idle
    /\ costRate = 0
    /\ costStart = <<>>
    /\ costEnd = <<>>
    /\ costed = FALSE
    /\ modalCost = ""
    /\ dashCost = ""

(* ------------------------------------------------------------------ *)
(* The application: ListingForm in ProfileView, ConfirmationModal in  *)
(* ChatView / ListingCard                                             *)
(* ------------------------------------------------------------------ *)

\* in-flight onConfirm calls (the modal's and the unmounted ones) are capped
MaxInFlight == 2

\* what the owner and the booker type into the time fields
TimeTexts ==
    { <<>>,
      <<"a", "b", "c">>,
      <<"9", ":", "5">>,
      <<"2", "4", ":", "0", "0">>,
      <<"0", "8", ":", "0", "0">>,
      <<"0", "9", ":", "0", "0">>,
      <<"9", ":", "0", "0">>,
      <<"1", "0", ":", "0", "0">>,
      <<"1", "7", ":", "0", "0">>,
      <<"1", "8", ":", "0", "0">> }

\* what the rate field holds after the owner types: the input is of type
\* number, whose value is a number text or, for any other entry, empty
RateTexts == { <<>>, <<"0">>, <<"5">>, <<"-", "1">> }

\* no listing, and the listing prop of an unmounted modal
NoListing == [startTime |-> <<>>, endTime |-> <<>>, rate |-> 0]

\* ListingForm's messages
FormMsgRequired == <<"Please fill out all required fields.">>

FormMsgRate == <<"Rate must be a positive number.">>

FormMsgFormat ==
    <<"Please enter times in the valid HH:MM 24-hour format (e.g., 09:00).">>

FormMsgOrder == <<"End time must be after start time on the same day.">>

FormMsgSubmit == <<"An unexpected error occurred. Please try again.">>

\* ConfirmationModal's messages
MsgFormat == <<"Please enter a valid start and end time in HH:MM format.">>

MsgOrder == <<"End time must be after start time.">>

MsgWindow(l) ==
    <<"Please select a time within the available window (", l.startTime, " - ",
      l.endTime, ").">>

MsgUnexpected == <<"An unexpected error occurred. Please try again.">>

\* useState initial values of ListingForm
FormUnmounted ==
    /\ formStartTime' = <<>>
    /\ formEndTime' = <<>>
    /\ formRate' = <<"5">>
    /\ formOtherFilled' = FALSE
    /\ formIsLoading' = FALSE
    /\ formError' = null

\* an unmounted ConfirmationModal
ModalUnmounted ==
    /\ modalListing' = NoListing
    /\ selectedStartTime' = <<>>
    /\ selectedEndTime' = <<>>
    /\ validationError' = null
    /\ isLoading' = FALSE
    /\ outstanding' = 0

AppInit ==
    /\ listing = NoListing
    /\ formOpen = FALSE
    /\ formStartTime = <<>>
    /\ formEndTime = <<>>
    /\ formRate = <<"5">>
    /\ formOtherFilled = FALSE
    /\ formIsLoading = FALSE
    /\ formError = null
    /\ submitPending = NoListing
    /\ modalOpen = FALSE
    /\ modalListing = NoListing
    /\ selectedStartTime = <<>>
    /\ selectedEndTime = <<>>
    /\ validationError = null
    /\ isLoading = FALSE
    /\ outstanding = 0
    /\ orphans = 0
    /\ calls = <<>>
    /\ lastHandler = ""
    /\ settlement = "none"

(* ---- ProfileView / ListingForm ---- *)

\* "List your driveway": the form mounts empty.  The views are entered
\* one at a time; the form is not entered while a listing is being saved
\* or a booking request is in flight.
OpenCreateForm ==
    /\ ~formOpen /\ ~modalOpen
    /\ submitPending = NoListing /\ orphans = 0
    /\ formOpen' = TRUE
    /\ FormUnmounted
    /\ calls' = <<>>
    /\ lastHandler' = ""
    /\ settlement' = "none"
    /\ UNCHANGED <<listing, submitPending, modalVars, outsideApp>>

\* handleOpenEditForm, and ListingForm's effect on initialData
handleOpenEditForm ==
    /\ ~formOpen /\ ~modalOpen
    /\ submitPending = NoListing /\ orphans = 0
    /\ listing # NoListing
    /\ formOpen' = TRUE
    /\ formStartTime' = listing.startTime
    /\ formEndTime' = listing.endTime
    /\ formRate' = RateToString(listing.rate)
    /\ formOtherFilled' = TRUE
    /\ formIsLoading' = FALSE
    /\ formError' = null
    /\ calls' = <<>>
    /\ lastHandler' = ""
    /\ settlement' = "none"
    /\ UNCHANGED <<listing, submitPending, modalVars, outsideApp>>

\* handleCloseForm: the form unmounts, a call in flight stays in flight
handleCloseForm ==
    /\ formOpen
    /\ formOpen' = FALSE
    /\ FormUnmounted
    /\ calls' = <<>>
    /\ lastHandler' = ""
    /\ settlement' = "none"
    /\ UNCHANGED <<listing, submitPending, modalVars, outsideApp>>

\* the inputs are disabled while isLoading
setStartTime(t) ==
    /\ formOpen /\ ~formIsLoading
    /\ formStartTime' = t
    /\ calls' = <<>>
    /\ lastHandler' = ""
    /\ settlement' = "none"
    /\ UNCHANGED <<listing, formOpen, formEndTime, formRate, formOtherFilled,
                   formIsLoading, formError, submitPending, modalVars,
                   outsideApp>>

setEndTime(t) ==
    /\ formOpen /\ ~formIsLoading
    /\ formEndTime' = t
    /\ calls' = <<>>
    /\ lastHandler' = ""
    /\ settlement' = "none"
    /\ UNCHANGED <<listing, formOpen, formStartTime, formRate, formOtherFilled,
                   formIsLoading, formError, submitPending, modalVars,
                   outsideApp>>

setRate(r) ==
    /\ formOpen /\ ~formIsLoading
    /\ formRate' = r
    /\ calls' = <<>>
    /\ lastHandler' = ""
    /\ settlement' = "none"
    /\ UNCHANGED <<listing, formOpen, formStartTime, formEndTime, formOtherFilled,
                   formIsLoading, formError, submitPending, modalVars,
                   outsideApp>>

\* the other required fields are filled in, or one of them is cleared
setOtherFields(b) ==
    /\ formOpen /\ ~formIsLoading
    /\ formOtherFilled' = b
    /\ calls' = <<>>
    /\ lastHandler' = ""
    /\ settlement' = "none"
    /\ UNCHANGED <<listing, formOpen, formStartTime, formEndTime, formRate,
                   formIsLoading, formError, submitPending, modalVars,
                   outsideApp>>

\* the validation with a rate check that lets a rate of zero pass
SubmitError_ZeroRate(startTime, endTime, rate, otherFilled) ==
    IF ~otherFilled \/ Len(rate) = 0 \/ Len(startTime) = 0 \/ Len(endTime) = 0
    THEN FormMsgRequired
    ELSE IF JsLess(parseFloat(rate), 0) \/ isNaN(parseFloat(rate))
    THEN FormMsgRate
    ELSE IF ListingForm_timeToMinutes(startTime) = -1
            \/ ListingForm_timeToMinutes(endTime) = -1
    THEN FormMsgFormat
    ELSE IF ListingForm_timeToMinutes(startTime) >= ListingForm_timeToMinutes(endTime)
    THEN FormMsgOrder
    ELSE null

\* the validation of handleSubmit: the message it sets, null when it passes
SubmitError(startTime, endTime, rate, otherFilled) ==
    IF ~otherFilled \/ Len(rate) = 0 \/ Len(startTime) = 0 \/ Len(endTime) = 0
    THEN FormMsgRequired
    ELSE IF JsLessEq(parseFloat(rate), 0) \/ isNaN(parseFloat(rate))
    THEN FormMsgRate
    ELSE IF ListingForm_timeToMinutes(startTime) = -1
            \/ ListingForm_timeToMinutes(endTime) = -1
    THEN FormMsgFormat
    ELSE IF ListingForm_timeToMinutes(startTime) >= ListingForm_timeToMinutes(endTime)
    THEN FormMsgOrder
    ELSE null

\* handleSubmit up to its await; the submit button is disabled while
\* isLoading.  One onSubmit call is in flight at a time.
handleSubmit ==
    /\ formOpen /\ ~formIsLoading
    /\ submitPending = NoListing
    /\ LET error == SubmitError(formStartTime, formEndTime, formRate, formOtherFilled)
           data  == [startTime |-> formStartTime, endTime |-> formEndTime,
                     rate |-> parseFloat(formRate)]
       IN  IF error # null
           THEN /\ formError' = error
                /\ calls' = <<>>
                /\ UNCHANGED <<formIsLoading, submitPending>>
           ELSE /\ formError' = null
                /\ formIsLoading' = TRUE
                /\ submitPending' = data
                /\ calls' = << <<"onSubmit", data>> >>
    /\ lastHandler' = "handleSubmit"
    /\ settlement' = "none"
    /\ UNCHANGED <<listing, formOpen, formStartTime, formEndTime, formRate,
                   formOtherFilled, modalVars, outsideApp>>

\* addListing / updateListing resolves: handleFormSubmit closes the form,
\* whichever form is open by then
SubmitResolved ==
    /\ submitPending # NoListing
    /\ listing' = submitPending
    /\ submitPending' = NoListing
    /\ formOpen' = FALSE
    /\ FormUnmounted
    /\ calls' = <<>>
    /\ lastHandler' = ""
    /\ settlement' = "none"
    /\ UNCHANGED <<modalVars, outsideApp>>

\* addListing / updateListing rejects: handleSubmit's catch and finally, which
\* act on the form that made the call if it is still mounted
SubmitRejected ==
    /\ submitPending # NoListing
    /\ submitPending' = NoListing
    /\ IF formOpen /\ formIsLoading
       THEN /\ formError' = FormMsgSubmit
            /\ formIsLoading' = FALSE
       ELSE UNCHANGED <<formError, formIsLoading>>
    /\ calls' = <<>>
    /\ lastHandler' = ""
    /\ settlement' = "none"
    /\ UNCHANGED <<listing, formOpen, formStartTime, formEndTime, formRate,
                   formOtherFilled, modalVars, outsideApp>>

(* ---- ChatView / ListingCard / ConfirmationModal ---- *)

\* handleBookNow, with the modal's mount effect: the selected times start
\* as the listing's window.  The listing prop is the listing as it was then
\* (ChatView's listingToBook).
handleBookNow ==
    /\ ~modalOpen /\ ~formOpen
    /\ submitPending = NoListing
    /\ listing # NoListing
    /\ modalOpen' = TRUE
    /\ modalListing' = listing
    /\ selectedStartTime' = listing.startTime
    /\ selectedEndTime' = listing.endTime
    /\ validationError' = null
    /\ isLoading' = FALSE
    /\ outstanding' = 0
    /\ calls' = <<>>
    /\ lastHandler' = ""
    /\ settlement' = "none"
    /\ UNCHANGED <<listing, formVars, orphans, outsideApp>>

\* the time inputs are never disabled
setSelectedStartTime(t) ==
    /\ modalOpen
    /\ selectedStartTime' = t
    /\ calls' = <<>>
    /\ lastHandler' = ""
    /\ settlement' = "none"
    /\ UNCHANGED <<listing, formVars, modalOpen, modalListing, selectedEndTime,
                   validationError, isLoading, outstanding, orphans, outsideApp>>

setSelectedEndTime(t) ==
    /\ modalOpen
    /\ selectedEndTime' = t
    /\ calls' = <<>>
    /\ lastHandler' = ""
    /\ settlement' = "none"
    /\ UNCHANGED <<listing, formVars, modalOpen, modalListing, selectedStartTime,
                   validationError, isLoading, outstanding, orphans, outsideApp>>
\* the checks with the window check before the ordering check
ConfirmError_WindowFirst(startTime, endTime, l) ==
    LET startMinutes        == timeToMinutes(startTime)
        endMinutes          == timeToMinutes(endTime)
        listingStartMinutes == timeToMinutes(l.startTime)
        listingEndMinutes   == timeToMinutes(l.endTime)
    IN  IF isNaN(startMinutes) \/ isNaN(endMinutes) THEN MsgFormat
        ELSE IF JsLess(startMinutes, listingStartMinutes)
                \/ JsGreater(endMinutes, listingEndMinutes)
        THEN MsgWindow(l)
        ELSE IF JsGreaterEq(startMinutes, endMinutes) THEN MsgOrder
        ELSE null

\* the checks with a window check that excludes the window's own bounds
ConfirmError_OpenWindow(startTime, endTime, l) ==
    LET startMinutes        == timeToMinutes(startTime)
        endMinutes          == timeToMinutes(endTime)
        listingStartMinutes == timeToMinutes(l.startTime)
        listingEndMinutes   == timeToMinutes(l.endTime)
    IN  IF isNaN(startMinutes) \/ isNaN(endMinutes) THEN MsgFormat
        ELSE IF JsGreaterEq(startMinutes, endMinutes) THEN MsgOrder
        ELSE IF JsLessEq(startMinutes, listingStartMinutes)
                \/ JsGreaterEq(endMinutes, listingEndMinutes)
        THEN MsgWindow(l)
        ELSE null

\* the three checks of handleConfirmClick: the message set, null when they pass
ConfirmError(startTime, endTime, l) ==
    LET startMinutes        == timeToMinutes(startTime)
        endMinutes          == timeToMinutes(endTime)
        listingStartMinutes == timeToMinutes(l.startTime)
        listingEndMinutes   == timeToMinutes(l.endTime)
    IN  IF isNaN(startMinutes) \/ isNaN(endMinutes) THEN MsgFormat
        ELSE IF JsGreaterEq(startMinutes, endMinutes) THEN MsgOrder
        ELSE IF JsLess(startMinutes, listingStartMinutes)
                \/ JsGreater(endMinutes, listingEndMinutes)
        THEN MsgWindow(l)
        ELSE null

\* the arguments of the onConfirm call: the texts of the two inputs, which
\* ChatView and ListingCard pass on to requestBooking / addBooking
onConfirmArguments(startTime, endTime) == <<startTime, endTime>>

\* totalCost, the memo the modal displays: calculateTotalCost of the listing's
\* rate and the two entered texts
totalCost(tieUp) ==
    calculateTotalCost(modalListing.rate, selectedStartTime, selectedEndTime, tieUp)

\* handleConfirmClick without the return after the window message
handleConfirmClick_NoReturn ==
    /\ modalOpen /\ ~isLoading
    /\ LET error == ConfirmError(selectedStartTime, selectedEndTime, modalListing)
       IN  IF error \in {MsgFormat, MsgOrder}
           THEN /\ validationError' = error
                /\ calls' = <<>>
                /\ UNCHANGED <<isLoading, outstanding>>
           ELSE /\ orphans + 1 <= MaxInFlight
                /\ validationError' = error
                /\ isLoading' = TRUE
                /\ outstanding' = outstanding + 1
                /\ calls' = << <<"onConfirm">>
                                \o onConfirmArguments(selectedStartTime, selectedEndTime) >>
    /\ lastHandler' = "handleConfirmClick"
    /\ settlement' = "none"
    /\ UNCHANGED <<listing, formVars, modalOpen, modalListing, selectedStartTime,
                   selectedEndTime, orphans, outsideApp>>

\* handleConfirmClick behind a button that is not disabled while isLoading
handleConfirmClick_NotDisabled ==
    /\ modalOpen
    /\ LET error == ConfirmError(selectedStartTime, selectedEndTime, modalListing)
       IN  IF error # null
           THEN /\ validationError' = error
                /\ calls' = <<>>
                /\ UNCHANGED <<isLoading, outstanding>>
           ELSE /\ orphans + outstanding + 1 <= MaxInFlight + 1
                /\ validationError' = null
                /\ isLoading' = TRUE
                /\ outstanding' = outstanding + 1
                /\ calls' = << <<"onConfirm">>
                                \o onConfirmArguments(selectedStartTime, selectedEndTime) >>
    /\ lastHandler' = "handleConfirmClick"
    /\ settlement' = "none"
    /\ UNCHANGED <<listing, formVars, modalOpen, modalListing, selectedStartTime,
                   selectedEndTime, orphans, outsideApp>>

\* handleConfirmClick up to its await; the button is disabled while isLoading
handleConfirmClick ==
    /\ modalOpen /\ ~isLoading
    /\ LET error == ConfirmError(selectedStartTime, selectedEndTime, modalListing)
       IN  IF error # null
           THEN /\ validationError' = error
                /\ calls' = <<>>
                /\ UNCHANGED <<isLoading, outstanding>>
           ELSE /\ orphans + 1 <= MaxInFlight
                /\ validationError' = null
                /\ isLoading' = TRUE
                /\ outstanding' = outstanding + 1
                /\ calls' = << <<"onConfirm">>
                                \o onConfirmArguments(selectedStartTime, selectedEndTime) >>
    /\ lastHandler' = "handleConfirmClick"
    /\ settlement' = "none"
    /\ UNCHANGED <<listing, formVars, modalOpen, modalListing, selectedStartTime,
                   selectedEndTime, orphans, outsideApp>>

\* onConfirm of the mounted modal resolves: the parent closes the modal
\* (setListingToBook(null) / setIsModalOpen(false)), then onClose() runs
ConfirmResolved ==
    /\ modalOpen /\ isLoading
    /\ modalOpen' = FALSE
    /\ ModalUnmounted
    /\ calls' = << <<"onClose">> >>
    /\ lastHandler' = ""
    /\ settlement' = "resolved"
    /\ UNCHANGED <<listing, formVars, orphans, outsideApp>>

\* a catch that sets the message and leaves isLoading as it is
ConfirmRejected_StaysLoading ==
    /\ modalOpen /\ isLoading
    /\ validationError' = MsgUnexpected
    /\ outstanding' = outstanding - 1
    /\ calls' = <<>>
    /\ lastHandler' = ""
    /\ settlement' = "rejected"
    /\ UNCHANGED <<listing, formVars, modalOpen, modalListing, selectedStartTime,
                   selectedEndTime, isLoading, orphans, outsideApp>>

\* onConfirm of the mounted modal rejects: the catch of handleConfirmClick
ConfirmRejected ==
    /\ modalOpen /\ isLoading
    /\ validationError' = MsgUnexpected
    /\ isLoading' = FALSE
    /\ outstanding' = outstanding - 1
    /\ calls' = <<>>
    /\ lastHandler' = ""
    /\ settlement' = "rejected"
    /\ UNCHANGED <<listing, formVars, modalOpen, modalListing, selectedStartTime,
                   selectedEndTime, orphans, outsideApp>>

\* the close button or the backdrop: onClose unmounts the modal; its
\* onConfirm call, if any, stays in flight
CloseModal ==
    /\ modalOpen
    /\ modalOpen' = FALSE
    /\ ModalUnmounted
    /\ orphans' = IF isLoading THEN orphans + 1 ELSE orphans
    /\ calls' = << <<"onClose">> >>
    /\ lastHandler' = ""
    /\ settlement' = "none"
    /\ UNCHANGED <<listing, formVars, outsideApp>>

\* onConfirm of an unmounted modal resolves: the parent's handler and then
\* onClose() close whichever modal that parent shows by then
OrphanResolved ==
    /\ orphans > 0
    /\ modalOpen' = FALSE
    /\ ModalUnmounted
    /\ orphans' = IF modalOpen /\ isLoading THEN orphans ELSE orphans - 1
    /\ calls' = << <<"onClose">> >>
    /\ lastHandler' = ""
    /\ settlement' = "resolved"
    /\ UNCHANGED <<listing, formVars, outsideApp>>

\* onConfirm of an unmounted modal rejects: its state setters have no effect
OrphanRejected ==
    /\ orphans > 0
    /\ orphans' = orphans - 1
    /\ calls' = <<>>
    /\ lastHandler' = ""
    /\ settlement' = "rejected"
    /\ UNCHANGED <<listing, formVars, modalOpen, modalListing, selectedStartTime,
                   selectedEndTime, validationError, isLoading, outstanding,
                   outsideApp>>

Init == AppInit /\ ParseIdle /\ CostIdle /\ ApprovalIdle /\ EmailIdle /\ BookingCardIdle /\ ChatIdle /\ ToastIdle

Next ==
    \/ OpenCreateForm
    \/ handleOpenEditForm
    \/ handleCloseForm
    \/ \E t \in TimeTexts : setStartTime(t)
    \/ \E t \in TimeTexts : setEndTime(t)
    \/ \E r \in RateTexts : setRate(r)
    \/ \E b \in BOOLEAN : setOtherFields(b)
    \/ handleSubmit
    \/ SubmitResolved
    \/ SubmitRejected
    \/ handleBookNow
    \/ \E t \in TimeTexts : setSelectedStartTime(t)
    \/ \E t \in TimeTexts : setSelectedEndTime(t)
    \/ handleConfirmClick
    \/ ConfirmResolved
    \/ ConfirmRejected
    \/ CloseModal
    \/ OrphanResolved
    \/ OrphanRejected

Spec == Init /\ [][Next]_vars

(* ------------------------------------------------------------------ *)
(* Properties of handleConfirmClick                                   *)
(* ------------------------------------------------------------------ *)

\* the texts that are times, and the minute count of one: by the shape and
\* the ranges of the text, not by the program's parsers
Parses(t) == t \in ValidTimeTexts

Minutes(t) ==
    LET h == CHOOSE h \in 0..23 :
                 \/ SubSeq(t, 1, Len(t) - 3) = Pad2(h)
                 \/ h < 10 /\ SubSeq(t, 1, Len(t) - 3) = <<DigitChar(h)>>
        m == CHOOSE m \in 0..59 : SubSeq(t, Len(t) - 1, Len(t)) = Pad2(m)
    IN  h * 60 + m

RequestParses == Parses(selectedStartTime) /\ Parses(selectedEndTime)

WindowParses == Parses(modalListing.startTime) /\ Parses(modalListing.endTime)

RequestOrdered == Minutes(selectedStartTime) < Minutes(selectedEndTime)

RequestInWindow ==
    /\ Minutes(selectedStartTime) >= Minutes(modalListing.startTime)
    /\ Minutes(selectedEndTime) <= Minutes(modalListing.endTime)

\* the step passes the entered times to onConfirm
InvokesOnConfirm ==
    calls' = << <<"onConfirm", selectedStartTime, selectedEndTime>> >>

\* C1: the three checks run in the order malformed time, end not after
\* start, outside the listing window, and the message shown is that of the
\* first failing check: a request whose start or end does not parse gets the
\* format message, a parsable request with start >= end gets the ordering
\* message even outside the window, and the window message is shown only
\* for parsable requests with start < end.
C1_FirstFailingCheck ==
    [][handleConfirmClick =>
          /\ ~RequestParses => validationError' = MsgFormat
          /\ (RequestParses /\ ~RequestOrdered) => validationError' = MsgOrder
          /\ validationError' = MsgWindow(modalListing)
                => (RequestParses /\ RequestOrdered)
          /\ (RequestParses /\ RequestOrdered /\ WindowParses /\ ~RequestInWindow)
                => validationError' = MsgWindow(modalListing)
      ]_vars

\* an inverted request outside the window has been given the ordering message
C1_Witness ==
    /\ lastHandler = "handleConfirmClick"
    /\ validationError = MsgOrder
    /\ RequestParses /\ WindowParses
    /\ ~RequestOrdered /\ ~RequestInWindow

\* C2: for a listing whose window parses, handleConfirmClick goes on to
\* onConfirm if and only if both entered times parse, start < end, start >=
\* listing start and end <= listing end.  The request equal to the window
\* (the unedited default) is accepted; a request that starts before the
\* window or ends after it is rejected.
C2_AcceptedIffInsideWindow ==
    [][(handleConfirmClick /\ WindowParses) =>
          /\ InvokesOnConfirm <=> (RequestParses /\ RequestOrdered /\ RequestInWindow)
          /\ ( /\ selectedStartTime = modalListing.startTime
               /\ selectedEndTime = modalListing.endTime ) => InvokesOnConfirm
          /\ ( /\ RequestParses
               /\ \/ Minutes(selectedStartTime) < Minutes(modalListing.startTime)
                  \/ Minutes(selectedEndTime) > Minutes(modalListing.endTime) )
                => (calls' = <<>> /\ validationError' # null)
      ]_vars

\* the unedited default has been passed to onConfirm
C2_Witness ==
    /\ lastHandler = "handleConfirmClick"
    /\ WindowParses
    /\ selectedStartTime = modalListing.startTime
    /\ selectedEndTime = modalListing.endTime
    /\ calls = << <<"onConfirm", modalListing.startTime, modalListing.endTime>> >>
    /\ isLoading

\* C3: when handleConfirmClick rejects, for any of the three reasons, nothing
\* is persisted and the reason is shown: onConfirm and onClose are not
\* invoked, isLoading stays false, the entered texts are unchanged and
\* validationError is a message.  Every click either rejects so or passes
\* the entered times to onConfirm.
C3_RejectionHasNoEffect ==
    [][handleConfirmClick =>
          /\ (~RequestParses \/ ~RequestOrdered) => calls' = <<>>
          /\ \/ /\ calls' = <<>>
                /\ validationError' \in {MsgFormat, MsgOrder, MsgWindow(modalListing)}
                /\ isLoading' = FALSE
                /\ modalOpen'
                /\ selectedStartTime' = selectedStartTime
                /\ selectedEndTime' = selectedEndTime
             \/ /\ InvokesOnConfirm
                /\ validationError' = null
                /\ isLoading' = TRUE
      ]_vars

\* a request outside the window has been rejected
C3_Witness ==
    /\ lastHandler = "handleConfirmClick"
    /\ validationError = MsgWindow(modalListing)
    /\ calls = <<>>
    /\ ~isLoading
    /\ modalOpen

\* C4: if the listing's own startTime or endTime does not parse,
\* handleConfirmClick rejects the request with the malformed-time message:
\* no request is accepted and onConfirm is not invoked against a listing
\* window that does not parse.
C4_MalformedWindowRejected ==
    [][(handleConfirmClick /\ ~WindowParses) =>
          (validationError' = MsgFormat /\ calls' = <<>>)
      ]_vars

\* C14: when a request is accepted, what is handed to the booking flow by
\* onConfirm is the normalized span: two accepted inputs that parse to the
\* same minute values (start 9:00 and start 09:00) have the same start and
\* end values passed to onConfirm.
C14_NormalizedSpanPassed ==
    [][(handleConfirmClick /\ InvokesOnConfirm) =>
          \A startTime, endTime \in TimeTexts :
              ( /\ ConfirmError(startTime, endTime, modalListing) = null
                /\ Minutes(startTime) = Minutes(selectedStartTime)
                /\ Minutes(endTime) = Minutes(selectedEndTime) )
              => onConfirmArguments(startTime, endTime)
                    = onConfirmArguments(selectedStartTime, selectedEndTime)
      ]_vars

\* t is the text of the hundredth nearest to num/60 cents
IsRoundingOf(t, num) ==
    \E n \in {num \div 60, num \div 60 + 1} :
        /\ t = Fixed2Text(FALSE, n)
        /\ 60 * n - num <= 30
        /\ num - 60 * n <= 30

\* the values a time parser may return: NaN or a minute of the day
TimeValues == {NaN} \cup MinutesOfDay

\* the text is 0.00 or the text of the rounded cost of the entered span
IsCostText(t) ==
    \/ t = "0.00"
    \/ /\ RequestParses /\ RequestOrdered
       /\ IsRoundingOf(t, modalListing.rate
                              * (Minutes(selectedEndTime) - Minutes(selectedStartTime)))

\* C17: expected validation failures are returned as values, never thrown:
\* for every entered text (empty, without a colon, non-numeric, out of range)
\* timeToMinutes returns NaN or a minute count and calculateTotalCost returns
\* 0.00 or a cost text, and handleConfirmClick reports a malformed or
\* out-of-window request by setting validationError and returning, the modal
\* left open and idle.
C17_FailuresAreValues ==
    [][handleConfirmClick =>
          /\ timeToMinutes(selectedStartTime) \in TimeValues
          /\ timeToMinutes(selectedEndTime) \in TimeValues
          /\ \A tieUp \in BOOLEAN :
                IsCostText(calculateTotalCost(modalListing.rate, selectedStartTime,
                                              selectedEndTime, tieUp))
          /\ ~RequestParses =>
                /\ isNaN(timeToMinutes(selectedStartTime))
                      \/ isNaN(timeToMinutes(selectedEndTime))
                /\ validationError' = MsgFormat
          /\ (RequestParses /\ RequestOrdered /\ WindowParses /\ ~RequestInWindow)
                => validationError' = MsgWindow(modalListing)
          /\ validationError' # null =>
                (calls' = <<>> /\ modalOpen' /\ ~isLoading' /\ orphans' = orphans)
      ]_vars

\* a text without a colon has been reported with the format message
C17_Witness ==
    /\ lastHandler = "handleConfirmClick"
    /\ selectedStartTime = <<"a", "b", "c">>
    /\ validationError = MsgFormat
    /\ calls = <<>>
    /\ modalOpen /\ ~isLoading

\* C21: the cost the modal displays agrees with its validation: whenever
\* handleConfirmClick would reject the entered times as malformed or as
\* not ordered the displayed totalCost is 0.00, whenever it would accept
\* them totalCost is rate * (end - start) / 60 written with two decimals,
\* and after an accepting click it is the cost of the very start and end
\* passed to onConfirm.
C21_DisplayedCostMatchesValidation ==
    modalOpen =>
        \A tieUp \in BOOLEAN :
            /\ ConfirmError(selectedStartTime, selectedEndTime, modalListing)
                      \in {MsgFormat, MsgOrder}
                  => totalCost(tieUp) = "0.00"
            /\ ConfirmError(selectedStartTime, selectedEndTime, modalListing) = null
                  => /\ RequestParses /\ RequestOrdered
                     /\ IsRoundingOf(totalCost(tieUp),
                            modalListing.rate
                                * (Minutes(selectedEndTime) - Minutes(selectedStartTime)))
            /\ (lastHandler = "handleConfirmClick" /\ calls # <<>>)
                  => /\ calls[1][1] = "onConfirm"
                     /\ Parses(calls[1][2]) /\ Parses(calls[1][3])
                     /\ IsRoundingOf(totalCost(tieUp),
                            modalListing.rate * (Minutes(calls[1][3]) - Minutes(calls[1][2])))

\* a request was accepted while the modal displayed a cost above zero
C21_Witness ==
    /\ modalOpen
    /\ lastHandler = "handleConfirmClick"
    /\ calls # <<>>
    /\ totalCost(TRUE) # "0.00"

C23_RejectionKeepsModalOpen ==
    [][/\ (settlement' = "rejected" /\ outstanding' < outstanding)
             => /\ modalOpen /\ modalOpen'
                /\ calls' = <<>>
                /\ validationError' = MsgUnexpected
                /\ ~isLoading'
                /\ UNCHANGED <<modalListing, selectedStartTime, selectedEndTime>>
       /\ settlement' = "rejected" => (modalOpen' = modalOpen /\ calls' = <<>>)
       /\ isLoading' => (modalOpen' /\ outstanding' = 1)
      ]_vars

\* a request that passed validation was rejected and the modal is open for
\* another try
C23_Witness ==
    /\ settlement = "rejected"
    /\ modalOpen
    /\ validationError = MsgUnexpected
    /\ ~isLoading
    /\ ConfirmError(selectedStartTime, selectedEndTime, modalListing) = null

(* ------------------------------------------------------------------ *)
(* Properties of ListingForm.handleSubmit                             *)
(* ------------------------------------------------------------------ *)

\* the step calls onSubmit
InvokesOnSubmit == calls' # <<>>

FormTimesParse == Parses(formStartTime) /\ Parses(formEndTime)

\* C15: a listing's advertised window always has start < end strictly:
\* handleSubmit invokes onSubmit (create or update) only when startTime and
\* endTime both parse as valid times and start minutes < end minutes;
\* zero-length and overnight-wrapping windows are rejected with a validation
\* message and onSubmit is not called.
C15_WindowStrictlyOrdered ==
    [][handleSubmit =>
          /\ InvokesOnSubmit =>
                (FormTimesParse /\ Minutes(formStartTime) < Minutes(formEndTime))
          /\ (FormTimesParse /\ Minutes(formStartTime) >= Minutes(formEndTime))
                => (calls' = <<>> /\ formError' # null)
      ]_vars

\* the texts of the positive amounts up to 10.00, as toString writes them
PositiveRateTexts == { RateToString(c) : c \in 1..1000 }

\* C16: a listing's hourly rate is always a positive number: handleSubmit
\* invokes onSubmit only when the rate text parses to a number strictly
\* greater than 0, and passes that number; a zero, negative or non-numeric
\* rate sets a validation error and onSubmit is not called.
C16_RatePositive ==
    [][handleSubmit =>
          /\ InvokesOnSubmit =>
                /\ formRate \in PositiveRateTexts
                /\ calls'[1][2].rate > 0
                /\ RateToString(calls'[1][2].rate) = formRate
          /\ formRate \notin PositiveRateTexts
                => (calls' = <<>> /\ formError' \in {FormMsgRequired, FormMsgRate})
      ]_vars

\* a rate of zero has been refused with the rate message
C16_Witness ==
    /\ lastHandler = "handleSubmit"
    /\ formRate = <<"0">>
    /\ formError = FormMsgRate
    /\ calls = <<>>
    /\ ~formIsLoading

(* ------------------------------------------------------------------ *)
(* Specification of the two parsers as pure functions                 *)
(* ------------------------------------------------------------------ *)

ParseInit ==
    /\ text \in AllTexts
    /\ parsed = FALSE
    /\ modalMinutes = NaN
    /\ formMinutes = NaN
    /\ CostIdle
    /\ AppInit
    /\ ApprovalIdle
    /\ EmailIdle
    /\ ToastIdle
    /\ ChatIdle
    /\ BookingCardIdle

\* both parsers are applied to the same text
ParseText ==
    /\ ~parsed
    /\ parsed' = TRUE
    /\ modalMinutes' = timeToMinutes(text)
    /\ formMinutes' = ListingForm_timeToMinutes(text)
    /\ UNCHANGED <<text, outsideParse>>

ParseNext == ParseText

ParseSpec == ParseInit /\ [][ParseNext]_vars

(* ------------------------------------------------------------------ *)
(* Properties of the parsers                                          *)
(* ------------------------------------------------------------------ *)

\* C5: the booking modal's timeToMinutes returns NaN for every text that is
\* not a 1-2 digit hour in 0..23, one colon and two minute digits in 0..59;
\* the empty text, a text without a colon, 24:00, 9:60, abc and texts with
\* extra characters are NaN, and no such text is clamped or read as midnight.
C5_InvalidIsNaN ==
    parsed =>
        /\ text \notin ValidTimeTexts => isNaN(modalMinutes)
        /\ text \in { <<>>, <<"a", "b", "c">>, <<"0", "9", "0", "0">>,
                      <<"2", "4", ":", "0", "0">>, <<"9", ":", "6", "0">>,
                      <<"0", "9", ":", "0", "0", "x">> } => isNaN(modalMinutes)
        /\ modalMinutes = 0 => text \in TextsOfMinutes(0)
        /\ modalMinutes \in {0, 1439} => text \in ValidTimeTexts

C5_Witness ==
    parsed /\ text = <<"2", "4", ":", "0", "0">> /\ isNaN(modalMinutes)

\* C6: for every valid H:MM or HH:MM text the booking modal's timeToMinutes
\* returns hours*60 + minutes, an integer in 0..1439; 09:00 gives 540, 23:59
\* gives 1439, and H:MM gives the same value as 0H:MM.
C6_ValidIsMinutes ==
    parsed =>
        /\ text \in ValidTimeTexts =>
              /\ modalMinutes \in MinutesOfDay
              /\ text \in TextsOfMinutes(modalMinutes)
        /\ text = <<"0", "9", ":", "0", "0">> => modalMinutes = 540
        /\ text = <<"2", "3", ":", "5", "9">> => modalMinutes = 1439
        /\ (text \in ValidTimeTexts /\ Len(text) = 4) =>
              modalMinutes = timeToMinutes(<<"0">> \o text)

C6_Witness ==
    parsed /\ text = <<"9", ":", "0", "0">> /\ modalMinutes = 540

\* C7: the listing form's timeToMinutes accepts only texts of the shape H:MM
\* or HH:MM with two minute digits and no extra characters and returns -1 for
\* everything else, so it accepts exactly the texts the booking modal's
\* parser accepts.
C7_FormParserStrict ==
    parsed =>
        /\ formMinutes # -1 <=> text \in ValidTimeTexts
        /\ formMinutes = -1 <=> isNaN(modalMinutes)

\* C20: for every valid H:MM or HH:MM text, parsing it, writing the minute
\* count as zero-padded HH:MM and parsing that text gives the same minute
\* count, and the zero-padded text is a fixed point of parsing then writing.
C20_ParseFormatRoundTrip ==
    (parsed /\ text \in ValidTimeTexts) =>
        /\ ~isNaN(modalMinutes)
        /\ timeToMinutes(FormatHHMM(modalMinutes)) = modalMinutes
        /\ FormatHHMM(timeToMinutes(FormatHHMM(modalMinutes))) = FormatHHMM(modalMinutes)

\* 9:00 was parsed; its zero-padded form 09:00 is another text
C20_Witness ==
    /\ parsed
    /\ text = <<"9", ":", "0", "0">>
    /\ FormatHHMM(modalMinutes) = <<"0", "9", ":", "0", "0">>
    /\ timeToMinutes(FormatHHMM(modalMinutes)) = 540

(* ------------------------------------------------------------------ *)
(* Specification of the two cost calculators as pure functions        *)
(* ------------------------------------------------------------------ *)

\* ListingForm's preset hourly rates, in dollars
PRESET_RATES == {1, 3, 5, 7, 10}

\* the smallest rates, in cents, are enumerated up to this one
MaxSmallRate == 3

\* hourly rates in cents: the presets, 7.50, and the smallest ones from 0
Rates == { 100 * r : r \in PRESET_RATES } \cup {750} \cup 0..MaxSmallRate

\* start and end texts given to the calculators
CostTexts ==
    { <<>>,
      <<"a", "b", "c">>,
      <<"0", "9", "0", "0">>,
      <<"9", ":", "5">>,
      <<"2", "5", ":", "0", "0">>,
      <<"0", "0", ":", "0", "0">>,
      <<"0", "9", ":", "0", "0">>,
      <<"9", ":", "0", "0">>,
      <<"0", "9", ":", "0", "1">>,
      <<"0", "9", ":", "3", "0">>,
      <<"1", "0", ":", "0", "0">>,
      <<"1", "7", ":", "0", "0">>,
      <<"2", "3", ":", "5", "9">> }

CostInit ==
    /\ costRate \in Rates
    /\ costStart \in CostTexts
    /\ costEnd \in CostTexts
    /\ costed = FALSE
    /\ modalCost = ""
    /\ dashCost = ""
    /\ costClock \in Clocks
    /\ modalTie = FALSE
    /\ dashTie = FALSE
    /\ Cost2Idle
    /\ ParseIdle
    /\ AppInit
    /\ ApprovalIdle
    /\ EmailIdle
    /\ ToastIdle
    /\ ChatIdle
    /\ BookingCardIdle

\* the number the booking modal's call gives to toFixed, as sixtieths of a
\* cent; -1 when the call returns before
ModalProduct(rate, startTime, endTime) ==
    LET startMinutes == timeToMinutes(startTime)
        endMinutes   == timeToMinutes(endTime)
    IN  IF isNaN(startMinutes) \/ isNaN(endMinutes) \/ endMinutes <= startMinutes
        THEN -1
        ELSE rate * (endMinutes - startMinutes)

\* the number ProfileView's call gives to toFixed; -1 when it returns before
DashProduct(rate, startTime, endTime, clock) ==
    LET startHours   == NumberAt(Split(startTime), 1)
        startMinutes == NumberAt(Split(startTime), 2)
        endHours     == NumberAt(Split(endTime), 1)
        endMinutes   == NumberAt(Split(endTime), 2)
    IN  IF isNaN(startHours) \/ isNaN(startMinutes) \/ isNaN(endHours) \/ isNaN(endMinutes)
        THEN -1
        ELSE rate * ProfileView_durationMinutes(startHours, startMinutes,
                        endHours, endMinutes, clock)

\* the number lies on an exact half cent, where the direction of toFixed
\* depends on the rounding error of the double
IsTie(product) == product >= 0 /\ 2 * (product % 60) = 60

\* the directions toFixed may take on a number: one direction per double
\* (durationMinutes / 60 and durationMillis / 3600000 are the same quotient,
\* correctly rounded, so equal products are equal doubles)
TieDirections(product) == IF IsTie(product) THEN BOOLEAN ELSE {FALSE}

\* both calculators are applied to the same arguments
ComputeCosts ==
    /\ ~costed
    /\ \E tieUp \in TieDirections(ModalProduct(costRate, costStart, costEnd)),
          tieUpDash \in TieDirections(DashProduct(costRate, costStart, costEnd, costClock)) :
          /\ ModalProduct(costRate, costStart, costEnd)
                = DashProduct(costRate, costStart, costEnd, costClock) => tieUpDash = tieUp
          /\ modalCost' = calculateTotalCost(costRate, costStart, costEnd, tieUp)
          /\ dashCost' = ProfileView_calculateTotalCost(costRate, costStart, costEnd,
                                                        tieUpDash, costClock)
          /\ modalTie' = tieUp
          /\ dashTie' = tieUpDash
    /\ costed' = TRUE
    /\ UNCHANGED <<costRate, costStart, costEnd, costClock, cost2Vars, outsideCost>>

\* both calculators are applied a second time; a number that the first call
\* rounded is rounded the same way
ComputeCostsAgain ==
    /\ costed /\ ~costed2
    /\ LET m1 == ModalProduct(costRate, costStart, costEnd)
           d1 == DashProduct(costRate, costStart, costEnd, costClock)
           m2 == ModalProduct(costRate, costStart2, costEnd2)
           d2 == DashProduct(costRate, costStart2, costEnd2, costClock2)
       IN  \E tieUp \in TieDirections(m2), tieUpDash \in TieDirections(d2) :
              /\ m2 = d2 => tieUpDash = tieUp
              /\ m2 = m1 => tieUp = modalTie
              /\ m2 = d1 => tieUp = dashTie
              /\ d2 = m1 => tieUpDash = modalTie
              /\ d2 = d1 => tieUpDash = dashTie
              /\ modalCost2' = calculateTotalCost(costRate, costStart2, costEnd2, tieUp)
              /\ dashCost2' = ProfileView_calculateTotalCost(costRate, costStart2, costEnd2,
                                                             tieUpDash, costClock2)
    /\ costed2' = TRUE
    /\ UNCHANGED <<costRate, costStart, costEnd, costed, modalCost, dashCost, costClock,
                   modalTie, dashTie, costStart2, costEnd2, costClock2, outsideCost>>

CostNext == ComputeCosts

CostSpec == CostInit /\ [][CostNext]_vars

(* ------------------------------------------------------------------ *)
(* Two calls of the cost calculators                                  *)
(* ------------------------------------------------------------------ *)

\* the spans of CostTexts that handleConfirmClick accepts in some window
AcceptedSpans ==
    { span \in CostTexts \X CostTexts :
        /\ ~isNaN(timeToMinutes(span[1])) /\ ~isNaN(timeToMinutes(span[2]))
        /\ timeToMinutes(span[1]) < timeToMinutes(span[2]) }

\* two accepted spans at one rate
TwoSpansInit ==
    /\ costRate \in Rates
    /\ \E span \in AcceptedSpans : costStart = span[1] /\ costEnd = span[2]
    /\ \E span \in AcceptedSpans : costStart2 = span[1] /\ costEnd2 = span[2]
    /\ costClock = PlainClock
    /\ costClock2 = PlainClock
    /\ costed = FALSE /\ costed2 = FALSE
    /\ modalCost = "" /\ dashCost = ""
    /\ modalCost2 = "" /\ dashCost2 = ""
    /\ modalTie = FALSE /\ dashTie = FALSE
    /\ ParseIdle
    /\ AppInit
    /\ ApprovalIdle
    /\ EmailIdle
    /\ ToastIdle
    /\ ChatIdle
    /\ BookingCardIdle

TwoCallsNext == ComputeCosts \/ ComputeCostsAgain

TwoSpansSpec == TwoSpansInit /\ [][TwoCallsNext]_vars

\* the same arguments twice, the second call at another time
RepeatInit ==
    /\ costRate \in Rates
    /\ costStart \in CostTexts
    /\ costEnd \in CostTexts
    /\ costStart2 = costStart
    /\ costEnd2 = costEnd
    /\ costClock \in Clocks
    /\ costClock2 \in Clocks
    /\ costed = FALSE /\ costed2 = FALSE
    /\ modalCost = "" /\ dashCost = ""
    /\ modalCost2 = "" /\ dashCost2 = ""
    /\ modalTie = FALSE /\ dashTie = FALSE
    /\ ParseIdle
    /\ AppInit
    /\ ApprovalIdle
    /\ EmailIdle
    /\ ToastIdle
    /\ ChatIdle
    /\ BookingCardIdle

RepeatSpec == RepeatInit /\ [][TwoCallsNext]_vars

(* ------------------------------------------------------------------ *)
(* Properties of the cost calculators                                 *)
(* ------------------------------------------------------------------ *)

\* the minute count a valid text denotes
MinutesOfText(s) == Minutes(s)

CostTimesValid == costStart \in ValidTimeTexts /\ costEnd \in ValidTimeTexts

\* C8: the booking modal's calculateTotalCost returns 0.00 whenever either
\* time is malformed or end <= start, and for no input with a rate >= 0 does
\* it return a negative amount: what it returns is 0.00 or the text, without
\* a sign, of the rounded cost of a span with start < end.
C8_InvalidSpanCostsZero ==
    costed =>
        /\ ~CostTimesValid => modalCost = "0.00"
        /\ (CostTimesValid /\ MinutesOfText(costEnd) <= MinutesOfText(costStart))
              => modalCost = "0.00"
        /\ \/ modalCost = "0.00"
           \/ /\ CostTimesValid
              /\ MinutesOfText(costStart) < MinutesOfText(costEnd)
              /\ IsRoundingOf(modalCost,
                     costRate * (MinutesOfText(costEnd) - MinutesOfText(costStart)))

C8_Witness ==
    /\ costed
    /\ costRate = 500
    /\ costStart = <<"1", "7", ":", "0", "0">>
    /\ costEnd = <<"0", "9", ":", "0", "0">>
    /\ modalCost = "0.00"

\* C9: for a valid span (start < end) the booking modal's calculateTotalCost
\* returns rate * (end - start) / 60 rounded to two decimal places; rate 5.00
\* over 09:00-17:00 gives 40.00 and rate 7.50 over 09:00-09:30 gives 3.75.
C9_CostIsRoundedProduct ==
    costed =>
        /\ (CostTimesValid /\ MinutesOfText(costStart) < MinutesOfText(costEnd))
              => IsRoundingOf(modalCost,
                     costRate * (MinutesOfText(costEnd) - MinutesOfText(costStart)))
        /\ ( /\ costRate = 500
             /\ costStart = <<"0", "9", ":", "0", "0">>
             /\ costEnd = <<"1", "7", ":", "0", "0">> ) => modalCost = "40.00"
        /\ ( /\ costRate = 750
             /\ costStart = <<"0", "9", ":", "0", "0">>
             /\ costEnd = <<"0", "9", ":", "3", "0">> ) => modalCost = "3.75"

C9_Witness ==
    /\ costed
    /\ costRate = 750
    /\ costStart = <<"0", "9", ":", "0", "0">>
    /\ costEnd = <<"0", "9", ":", "3", "0">>
    /\ modalCost = "3.75"

\* C10: given numeric times with end <= start, ProfileView's
\* calculateTotalCost takes the end to be on the next day and returns the
\* cost of (end + 24h - start), while the booking modal's calculateTotalCost
\* returns 0.00 for the same input.
C10_CalculatorsDifferOnInvertedSpan ==
    costed =>
        /\ (CostTimesValid /\ MinutesOfText(costEnd) <= MinutesOfText(costStart))
              => /\ modalCost = "0.00"
                 /\ IsRoundingOf(dashCost,
                        costRate * (MinutesOfText(costEnd) + 24 * 60
                                        - MinutesOfText(costStart)))
        /\ ( /\ costRate = 500
             /\ costStart = <<"1", "7", ":", "0", "0">>
             /\ costEnd = <<"0", "9", ":", "0", "0">> )
              => (modalCost = "0.00" /\ dashCost = "80.00")
        /\ ( /\ costRate = 500
             /\ costStart = <<"1", "0", ":", "0", "0">>
             /\ costEnd = <<"1", "0", ":", "0", "0">> )
              => (modalCost = "0.00" /\ dashCost = "120.00")

\* C11: the cost rule is applied consistently across the booking surfaces:
\* for every rate and every pair of well-formed times with start < end, the
\* amount of the booking modal's calculateTotalCost equals the amount of
\* ProfileView's calculateTotalCost (BookingCard, BookingRequestCard).
C11_SurfacesAgreeOnCost ==
    costed =>
        ((CostTimesValid /\ MinutesOfText(costStart) < MinutesOfText(costEnd))
            => dashCost = modalCost)

\* the amount in cents that a cost text denotes, looked for next to
\* product/60; -1 when the text is not the text of such an amount
AmountOf(t, product) ==
    IF t = Fixed2Text(FALSE, product \div 60) THEN product \div 60
    ELSE IF t = Fixed2Text(FALSE, product \div 60 + 1) THEN product \div 60 + 1
    ELSE -1

SpanLength(startTime, endTime) == MinutesOfText(endTime) - MinutesOfText(startTime)

SpanAccepted(startTime, endTime) ==
    /\ startTime \in ValidTimeTexts /\ endTime \in ValidTimeTexts
    /\ MinutesOfText(startTime) < MinutesOfText(endTime)

\* C12: for a fixed non-negative rate the cost of every accepted span is
\* >= 0 and non-decreasing in the length of the span: if end1 - start1 <=
\* end2 - start2 for two accepted spans then cost(rate, span1) <=
\* cost(rate, span2).
C12_CostMonotoneInSpan ==
    ( /\ costed /\ costed2
      /\ SpanAccepted(costStart, costEnd) /\ SpanAccepted(costStart2, costEnd2) )
    => LET length1 == SpanLength(costStart, costEnd)
           length2 == SpanLength(costStart2, costEnd2)
           amount1 == AmountOf(modalCost, costRate * length1)
           amount2 == AmountOf(modalCost2, costRate * length2)
       IN  /\ amount1 >= 0
           /\ amount2 >= 0
           /\ length1 <= length2 => amount1 <= amount2

\* half an hour and then an hour at one cent an hour: the shorter span lies
\* on a half cent and costs no more than the longer
C12_Witness ==
    /\ costed /\ costed2
    /\ costRate = 1
    /\ costStart = <<"0", "9", ":", "0", "0">> /\ costEnd = <<"0", "9", ":", "3", "0">>
    /\ costStart2 = <<"0", "9", ":", "0", "0">> /\ costEnd2 = <<"1", "0", ":", "0", "0">>
    /\ modalCost = "0.01"
    /\ modalCost2 = "0.01"

\* C18: time parsing, window validation and cost calculation are functions
\* of their arguments only: two calls with the same rate, start text and end
\* text give the same result whenever they are made, the booking modal's
\* calculateTotalCost and ProfileView's alike.
C18_SameArgumentsSameResult ==
    (costed /\ costed2 /\ costStart2 = costStart /\ costEnd2 = costEnd)
        => (modalCost2 = modalCost /\ dashCost2 = dashCost)

(* ------------------------------------------------------------------ *)
(* The owner's dashboard: BookingRequestCard and the approval flow    *)
(* ------------------------------------------------------------------ *)

\* the spans the bookers asked for: 09:00-10:00 and 10:00-17:00 touch,
\* 09:00-17:00 overlaps both
RequestSpans ==
    { [startTime |-> <<"0", "9", ":", "0", "0">>, endTime |-> <<"1", "0", ":", "0", "0">>],
      [startTime |-> <<"1", "0", ":", "0", "0">>, endTime |-> <<"1", "7", ":", "0", "0">>],
      [startTime |-> <<"0", "9", ":", "0", "0">>, endTime |-> <<"1", "7", ":", "0", "0">>] }

\* the requests are pending on one listing and one date; ProfileView opens
\* on the bookings tab
ApprovalInit ==
    /\ bookingSpan \in [RequestIds -> RequestSpans]
    /\ bookingStatus = [id \in RequestIds |-> "pending"]
    /\ activeTab = "bookings"
    /\ cardLoading = [id \in RequestIds |-> NotLoading]
    /\ cardCalls = [id \in RequestIds |-> <<>>]
    /\ approvePhase = [id \in RequestIds |-> "idle"]
    /\ denyPhase = [id \in RequestIds |-> "idle"]
    /\ ParseIdle
    /\ CostIdle
    /\ AppInit
    /\ EmailIdle
    /\ ToastIdle
    /\ ChatIdle
    /\ BookingCardIdle

\* the parent's bookingRequests: the requests awaiting the owner
InBookingRequests(id) == bookingStatus[id] = "pending"

\* a BookingRequestCard is rendered for the request
CardMounted(id) == activeTab = "listings" /\ InBookingRequests(id)

\* the isLoading of each card after a render: a card that is not rendered
\* is unmounted and, with its key, mounts again with isLoading null
CardsAfter(tab, status, loading) ==
    [id \in RequestIds |->
        IF tab = "listings" /\ status[id] = "pending" THEN loading[id] ELSE NotLoading]

\* the calls of each card after a render: a card that mounts has made none
CallsAfter(tab, status, made) ==
    [id \in RequestIds |->
        IF tab = "listings" /\ status[id] = "pending" THEN made[id] ELSE <<>>]

\* setActiveTab(tab), the two tab buttons
setActiveTab(tab) ==
    /\ activeTab' = tab
    /\ cardLoading' = CardsAfter(tab, bookingStatus, cardLoading)
    /\ cardCalls' = CallsAfter(tab, bookingStatus, cardCalls)
    /\ UNCHANGED <<bookingSpan, bookingStatus, approvePhase, denyPhase, outsideApproval>>

\* handleApprove behind a button that is not disabled
handleApprove_NotDisabled(id) ==
    /\ CardMounted(id)
    /\ approvePhase[id] = "idle"
    /\ cardLoading' = [cardLoading EXCEPT ![id] = "approve"]
    /\ cardCalls' = [cardCalls EXCEPT ![id] = Append(@, "onApprove")]
    /\ approvePhase' = [approvePhase EXCEPT ![id] = "called"]
    /\ UNCHANGED <<bookingSpan, bookingStatus, activeTab, denyPhase, outsideApproval>>

\* handleApprove up to its await; both buttons are disabled while isLoading
\* is set, and it is never reset.  One approveBooking call per request is
\* in flight at a time.
handleApprove(id) ==
    /\ CardMounted(id)
    /\ cardLoading[id] = NotLoading
    /\ approvePhase[id] = "idle"
    /\ cardLoading' = [cardLoading EXCEPT ![id] = "approve"]
    /\ cardCalls' = [cardCalls EXCEPT ![id] = Append(@, "onApprove")]
    /\ approvePhase' = [approvePhase EXCEPT ![id] = "called"]
    /\ UNCHANGED <<bookingSpan, bookingStatus, activeTab, denyPhase, outsideApproval>>

\* handleDeny up to its await
handleDeny(id) ==
    /\ CardMounted(id)
    /\ cardLoading[id] = NotLoading
    /\ denyPhase[id] = "idle"
    /\ cardLoading' = [cardLoading EXCEPT ![id] = "deny"]
    /\ cardCalls' = [cardCalls EXCEPT ![id] = Append(@, "onDeny")]
    /\ denyPhase' = [denyPhase EXCEPT ![id] = "called"]
    /\ UNCHANGED <<bookingSpan, bookingStatus, activeTab, approvePhase, outsideApproval>>

\* two spans of one day overlap; spans that touch do not
Overlaps(a, b) ==
    /\ timeToMinutes(a.startTime) < timeToMinutes(b.endTime)
    /\ timeToMinutes(b.startTime) < timeToMinutes(a.endTime)

\* the request conflicts with a confirmed booking of the listing and date
HasConflict(id) ==
    \E other \in RequestIds \ {id} :
        /\ bookingStatus[other] = "confirmed"
        /\ Overlaps(bookingSpan[id], bookingSpan[other])

\* approveBooking, first half: it reads the confirmed bookings of the
\* listing and date and checks the request against them.  The call ends
\* here, the request unchanged, when the request is no longer pending or
\* conflicts.
approveBooking_check(id) ==
    /\ approvePhase[id] = "called"
    /\ approvePhase' = [approvePhase EXCEPT ![id] =
           IF bookingStatus[id] = "pending" /\ ~HasConflict(id) THEN "checked" ELSE "idle"]
    /\ UNCHANGED <<bookingSpan, bookingStatus, activeTab, cardLoading, cardCalls,
                   denyPhase, outsideApproval>>

\* approveBooking, second half: the request is written as confirmed and
\* leaves bookingRequests.  The check and the write are not one transaction.
approveBooking_confirm(id) ==
    /\ approvePhase[id] = "checked"
    /\ approvePhase' = [approvePhase EXCEPT ![id] = "idle"]
    /\ bookingStatus' = [bookingStatus EXCEPT ![id] = "confirmed"]
    /\ cardLoading' = CardsAfter(activeTab, bookingStatus', cardLoading)
    /\ cardCalls' = CallsAfter(activeTab, bookingStatus', cardCalls)
    /\ UNCHANGED <<bookingSpan, activeTab, denyPhase, outsideApproval>>

\* denyBooking: a pending request is written as denied
denyBooking(id) ==
    /\ denyPhase[id] = "called"
    /\ denyPhase' = [denyPhase EXCEPT ![id] = "idle"]
    /\ bookingStatus' = [bookingStatus EXCEPT ![id] =
           IF bookingStatus[id] = "pending" THEN "denied" ELSE bookingStatus[id]]
    /\ cardLoading' = CardsAfter(activeTab, bookingStatus', cardLoading)
    /\ cardCalls' = CallsAfter(activeTab, bookingStatus', cardCalls)
    /\ UNCHANGED <<bookingSpan, activeTab, approvePhase, outsideApproval>>

\* approveBooking rejects (the store fails): the request is left as it is
approveBooking_rejects(id) ==
    /\ approvePhase[id] \in {"called", "checked"}
    /\ approvePhase' = [approvePhase EXCEPT ![id] = "idle"]
    /\ UNCHANGED <<bookingSpan, bookingStatus, activeTab, cardLoading, cardCalls,
                   denyPhase, outsideApproval>>

\* denyBooking rejects: the request is left as it is
denyBooking_rejects(id) ==
    /\ denyPhase[id] = "called"
    /\ denyPhase' = [denyPhase EXCEPT ![id] = "idle"]
    /\ UNCHANGED <<bookingSpan, bookingStatus, activeTab, cardLoading, cardCalls,
                   approvePhase, outsideApproval>>

ApprovalNext ==
    \/ \E tab \in {"bookings", "listings"} : setActiveTab(tab)
    \/ \E id \in RequestIds : handleApprove(id)
    \/ \E id \in RequestIds : handleDeny(id)
    \/ \E id \in RequestIds : approveBooking_check(id)
    \/ \E id \in RequestIds : approveBooking_confirm(id)
    \/ \E id \in RequestIds : denyBooking(id)
    \/ \E id \in RequestIds : approveBooking_rejects(id)
    \/ \E id \in RequestIds : denyBooking_rejects(id)

ApprovalSpec == ApprovalInit /\ [][ApprovalNext]_vars

\* C24: a BookingRequestCard invokes at most one of onApprove and onDeny and
\* invokes it at most once: from the first click on, isLoading is set and
\* both buttons are disabled, and they stay so for as long as the card is
\* mounted, whether the parent's call succeeds, finds a conflict or rejects.
C24_OneDecisionPerCard ==
    [][\A id \in RequestIds :
          /\ Len(cardCalls'[id]) <= 1
          /\ (cardCalls'[id] # <<>>) <=> (cardLoading'[id] # NotLoading)
          /\ (cardLoading[id] # NotLoading /\ CardMounted(id) /\ CardMounted(id)')
                => (cardLoading'[id] = cardLoading[id] /\ cardCalls'[id] = cardCalls[id])
      ]_vars

\* a card whose approve call ended without a change to the request is
\* still mounted, its buttons still disabled
C24_Witness ==
    \E id \in RequestIds :
        /\ CardMounted(id)
        /\ cardLoading[id] = "approve"
        /\ cardCalls[id] = <<"onApprove">>
        /\ approvePhase[id] = "idle"

\* C13: a pending booking is moved to confirmed only after an overlap check
\* against all other confirmed bookings of the same listing and date, so
\* that in every reachable state no two confirmed bookings of the same
\* listing and date have overlapping spans, also when two approvals of
\* overlapping pending requests are issued concurrently.
C13_NoOverlappingConfirmed ==
    \A a, b \in RequestIds :
        (a # b /\ bookingStatus[a] = "confirmed" /\ bookingStatus[b] = "confirmed")
            => ~Overlaps(bookingSpan[a], bookingSpan[b])

(* ------------------------------------------------------------------ *)
(* geminiService: the email generators                                *)
(* ------------------------------------------------------------------ *)
\* JavaScript values as JSON.parse builds them: null, a string (its text a
\* sequence of pieces) or an object (its members in order)
JsNull == [type |-> "null", text |-> <<>>, members |-> <<>>]

JsString(chars) == [type |-> "string", text |-> chars, members |-> <<>>]

JsObject(members) == [type |-> "object", text |-> <<>>, members |-> members]

Member(key, value) == [key |-> key, value |-> value]

\* the result of a parsing step: the value read and the position after it,
\* or a SyntaxError
SyntaxError == [ok |-> FALSE, value |-> JsNull, next |-> 0]

Parsed(value, next) == [ok |-> TRUE, value |-> value, next |-> next]

CharAt(json, i) == IF i \in 1..Len(json) THEN json[i] ELSE "EOF"

HasAt(json, i, word) ==
    /\ i + Len(word) - 1 <= Len(json)
    /\ \A k \in 1..Len(word) : json[i + k - 1] = word[k]

\* a JSON string at position i: a quote, the characters up to the next quote
\* (the texts here hold no escapes and no control characters), a quote
JSON_string(json, i) ==
    IF CharAt(json, i) # "\""
    THEN SyntaxError
    ELSE LET closing == { j \in (i + 1)..Len(json) : json[j] = "\"" }
         IN  IF closing = {}
             THEN SyntaxError
             ELSE LET j == CHOOSE j \in closing : \A k \in closing : j <= k
                  IN  Parsed(JsString(SubSeq(json, i + 1, j - 1)), j + 1)

RECURSIVE JSON_value(_, _)
RECURSIVE JSON_members(_, _, _)

\* the members of an object from position i, after those in acc: a key, a
\* colon, a value, then a comma and more members or the closing brace
JSON_members(json, i, acc) ==
    LET key == JSON_string(json, i)
    IN  IF ~key.ok \/ CharAt(json, key.next) # ":"
        THEN SyntaxError
        ELSE LET value == JSON_value(json, key.next + 1)
             IN  IF ~value.ok
                 THEN SyntaxError
                 ELSE LET members == Append(acc, Member(key.value.text, value.value))
                      IN  CASE CharAt(json, value.next) = "," ->
                                   JSON_members(json, value.next + 1, members)
                            [] CharAt(json, value.next) = "}" ->
                                   Parsed(JsObject(members), value.next + 1)
                            [] OTHER -> SyntaxError

\* a JSON value at position i: null, a string or an object
JSON_value(json, i) ==
    CASE HasAt(json, i, <<"n", "u", "l", "l">>) -> Parsed(JsNull, i + 4)
      [] CharAt(json, i) = "\"" -> JSON_string(json, i)
      [] CharAt(json, i) = "{" ->
             IF CharAt(json, i + 1) = "}"
             THEN Parsed(JsObject(<<>>), i + 2)
             ELSE JSON_members(json, i + 1, <<>>)
      [] OTHER -> SyntaxError

\* response.text as JSON.parse reads it: its argument converted to a string
JsToString(response) ==
    IF response.hasText
    THEN response.text
    ELSE <<"u", "n", "d", "e", "f", "i", "n", "e", "d">>

\* JSON.parse: the value when the whole text is one JSON value, a SyntaxError
\* otherwise
JSON_parse(json) ==
    LET result == JSON_value(json, 1)
    IN  IF result.ok /\ result.next = Len(json) + 1 THEN result ELSE SyntaxError

\* the texts a response can carry
\* {"subject":"s","body":"b"} (the object the prompt asks for)
EmailJSON ==
    <<"{", "\"", "s", "u", "b", "j", "e", "c", "t", "\"", ":", "\"", "s",
      "\"", ",", "\"", "b", "o", "d", "y", "\"", ":", "\"", "b", "\"", "}">>

\* {"subject":"s" (an object cut short)
TruncatedJSON ==
    <<"{", "\"", "s", "u", "b", "j", "e", "c", "t", "\"", ":", "\"", "s",
      "\"">>

\* {"subject":"s",} (a comma before the closing brace)
TrailingCommaJSON ==
    <<"{", "\"", "s", "u", "b", "j", "e", "c", "t", "\"", ":", "\"", "s",
      "\"", ",", "}">>

\* {}x (text after the value)
TrailingTextJSON ==
    <<"{", "}", "x">>

\* null (JSON that is not an object)
NullJSON ==
    <<"n", "u", "l", "l">>

\* {} (an object without the members asked for)
EmptyObjectJSON ==
    <<"{", "}">>

\* "s" (a bare string)
StringJSON ==
    <<"\"", "s", "\"">>

ValidJSONTexts == {EmailJSON, NullJSON, EmptyObjectJSON, StringJSON}

ResponseTexts ==
    ValidJSONTexts \cup {<<>>, TruncatedJSON, TrailingCommaJSON, TrailingTextJSON}

\* what generateContent can settle with: a rejection, or a response whose
\* text getter gives undefined or a string
Rejection == [failed |-> TRUE, hasText |-> FALSE, text |-> <<>>]

Responses ==
    {[failed |-> FALSE, hasText |-> FALSE, text |-> <<>>]}
        \cup { [failed |-> FALSE, hasText |-> TRUE, text |-> t] : t \in ResponseTexts }

\* the arguments of the generators
Bookings ==
    { [location |-> l, date |-> "2025-03-09", bookerName |-> "Ann",
       bookerEmail |-> "ann@example.com", startTime |-> "09:00", endTime |-> "17:00"] :
        l \in {"1 Main St", "2 Oak Ave"} }

Details ==
    { [bookerName |-> b.bookerName, ownerEmail |-> "owner@example.com",
       location |-> b.location, date |-> b.date, startTime |-> b.startTime,
       endTime |-> b.endTime, rate |-> 5] : b \in Bookings }

Listings == { [address |-> a] : a \in {"1 Main St", "2 Oak Ave"} }

EmailSites ==
    {"generateBookingRequestEmail", "generateBookingDeniedEmail",
     "generateBookingConfirmationEmails", "generateListingConfirmationEmail",
     "generateBookingCancellationEmails", "generateListingUpdateCancellationEmail"}

EmailInputs(site) ==
    CASE site = "generateBookingConfirmationEmails" ->
             { [details |-> d] : d \in Details }
      [] site = "generateListingConfirmationEmail" ->
             { [listing |-> l, userName |-> "Bob"] : l \in Listings }
      [] site = "generateBookingCancellationEmails" ->
             { [booking |-> b, canceler |-> "Ann"] : b \in Bookings }
      [] OTHER -> { [booking |-> b] : b \in Bookings }

\* the fallback each generator builds before its try block
generateBookingRequestEmail_fallback(booking) ==
    JsObject(<<
        Member(<<"subject">>, JsString(<<"New Booking Request for ", booking.location>>)),
        Member(<<"body">>, JsString(<<"You have a new booking request from ",
            booking.bookerName, " for your driveway at ", booking.location, " on ",
            booking.date, ". Please log in to your ParkPulse dashboard to respond.">>)) >>)

generateBookingDeniedEmail_fallback(booking) ==
    JsObject(<<
        Member(<<"subject">>,
            JsString(<<"Update on your booking request for ", booking.location>>)),
        Member(<<"body">>, JsString(<<"Unfortunately, your booking request for the driveway at ",
            booking.location, " on ", booking.date,
            " could not be accepted by the owner. We encourage you to search for other available spots on ParkPulse.">>)) >>)

generateBookingConfirmationEmails_fallback(details) ==
    JsObject(<<
        Member(<<"bookerSubject">>, JsString(<<"Booking Confirmed: ", details.location>>)),
        Member(<<"bookerEmailContent">>, JsString(<<"Your booking for ", details.location,
            " on ", details.date, " from ", details.startTime, " to ", details.endTime,
            " is confirmed.">>)),
        Member(<<"ownerSubject">>, JsString(<<"Booking Confirmed: ", details.location>>)),
        Member(<<"ownerEmailContent">>, JsString(<<"Your driveway at ", details.location,
            " has been booked by ", details.bookerName, " on ", details.date, " from ",
            details.startTime, " to ", details.endTime, ".">>)) >>)

generateListingConfirmationEmail_fallback(listingArg, userName) ==
    JsObject(<<
        Member(<<"subject">>, JsString(<<"Your Driveway is Listed!">>)),
        Member(<<"emailContent">>, JsString(<<"Congratulations, ", userName,
            "! Your driveway at ", listingArg.address, " is now live on ParkPulse.">>)) >>)

generateBookingCancellationEmails_fallback(booking) ==
    JsObject(<<
        Member(<<"bookerSubject">>, JsString(<<"Booking Canceled: ", booking.location>>)),
        Member(<<"bookerEmailContent">>, JsString(<<"Your booking for ", booking.location,
            " on ", booking.date, " has been successfully canceled.">>)),
        Member(<<"ownerSubject">>,
            JsString(<<"Booking Canceled by User: ", booking.location>>)),
        Member(<<"ownerEmailContent">>, JsString(<<"The booking for your driveway at ",
            booking.location, " on ", booking.date, " from ", booking.startTime, " to ",
            booking.endTime, " has been canceled by the user.">>)) >>)

generateListingUpdateCancellationEmail_fallback(booking) ==
    JsObject(<<
        Member(<<"subject">>,
            JsString(<<"Important Update on your booking for ", booking.location>>)),
        Member(<<"body">>, JsString(<<"Unfortunately, your booking for the driveway at ",
            booking.location, " on ", booking.date,
            " has been canceled because the owner updated their availability. We apologize for any inconvenience this may cause and encourage you to search for other available spots on ParkPulse.">>)) >>)

FallbackOf(site, input) ==
    CASE site = "generateBookingRequestEmail" ->
             generateBookingRequestEmail_fallback(input.booking)
      [] site = "generateBookingDeniedEmail" ->
             generateBookingDeniedEmail_fallback(input.booking)
      [] site = "generateBookingConfirmationEmails" ->
             generateBookingConfirmationEmails_fallback(input.details)
      [] site = "generateListingConfirmationEmail" ->
             generateListingConfirmationEmail_fallback(input.listing, input.userName)
      [] site = "generateBookingCancellationEmails" ->
             generateBookingCancellationEmails_fallback(input.booking)
      [] site = "generateListingUpdateCancellationEmail" ->
             generateListingUpdateCancellationEmail_fallback(input.booking)

Fulfilled(value) == [state |-> "fulfilled", value |-> value]

Rejected == [state |-> "rejected", value |-> JsNull]

\* a generator whose JSON.parse stands outside every try block: a
\* SyntaxError rejects the promise
generateEmail_afterAwait_ParseUncaught(fallback, response) ==
    IF response.failed
    THEN Fulfilled(fallback)
    ELSE LET result == JSON_parse(JsToString(response))
         IN  IF result.ok THEN Fulfilled(result.value) ELSE Rejected

\* a generator from its await on: the outer catch returns the fallback when
\* generateContent failed, the inner try returns JSON.parse(response.text)
\* and its catch the fallback
generateEmail_afterAwait(fallback, response) ==
    IF response.failed
    THEN Fulfilled(fallback)
    ELSE LET result == JSON_parse(JsToString(response))
         IN  IF result.ok THEN Fulfilled(result.value) ELSE Fulfilled(fallback)

\* a generator is called: it builds its fallback and its prompt and awaits
\* ai.models.generateContent
generateEmail_call(site, input) ==
    /\ emailPhase # "awaiting"
    /\ emailSite' = site
    /\ emailInput' = input
    /\ emailPhase' = "awaiting"
    /\ emailResponse' = NoResponse
    /\ emailPromise' = PendingPromise
    /\ UNCHANGED outsideEmail

\* generateContent settles and the generator runs to its return
generateContent_settles(response) ==
    /\ emailPhase = "awaiting"
    /\ emailResponse' = response
    /\ emailPromise' =
           generateEmail_afterAwait(FallbackOf(emailSite, emailInput), response)
    /\ emailPhase' = "settled"
    /\ UNCHANGED <<emailSite, emailInput, outsideEmail>>

generateContent_rejects == generateContent_settles(Rejection)

generateContent_resolves == \E response \in Responses : generateContent_settles(response)

EmailInit ==
    /\ EmailIdle
    /\ ToastIdle
    /\ ChatIdle
    /\ BookingCardIdle
    /\ ParseIdle
    /\ CostIdle
    /\ AppInit
    /\ ApprovalIdle

EmailNext ==
    \/ \E site \in EmailSites : \E input \in EmailInputs(site) :
           generateEmail_call(site, input)
    \/ generateContent_rejects
    \/ generateContent_resolves

EmailSpec == EmailInit /\ [][EmailNext]_vars

\* C19: every email generator's promise is fulfilled, never rejected: with
\* the fallback of its call site when generateContent failed or the
\* response's text is not JSON, with the parsed text otherwise
C19_GeneratorsAlwaysResolve ==
    emailPhase = "settled" =>
        /\ emailPromise.state = "fulfilled"
        /\ emailPromise.value =
               IF emailResponse.failed
                      \/ ~emailResponse.hasText
                      \/ emailResponse.text \notin ValidJSONTexts
               THEN FallbackOf(emailSite, emailInput)
               ELSE JSON_parse(emailResponse.text).value
        /\ (emailSite = "generateListingConfirmationEmail"
                /\ emailPromise.value = FallbackOf(emailSite, emailInput))
               => emailPromise.value.members[1].value.text = <<"Your Driveway is Listed!">>

\* a generator was handed an object cut short and returned its fallback
C19_Witness ==
    /\ emailPhase = "settled"
    /\ emailSite = "generateBookingConfirmationEmails"
    /\ emailResponse.hasText
    /\ emailResponse.text = TruncatedJSON
    /\ emailPromise = Fulfilled(FallbackOf(emailSite, emailInput))

(* ------------------------------------------------------------------ *)
(* ProfileView: BookingCard                                           *)
(* ------------------------------------------------------------------ *)
\* Booking['status']
BookingStatuses ==
    {"pending", "confirmed", "denied", "canceled_by_user", "canceled_by_owner"}

canCancel(status) == status = "pending" \/ status = "confirmed"

\* a canDelete that lets everything but a confirmed booking be deleted
canDelete_NotConfirmed(status) == status # "confirmed"

canDelete(status) == status \in {"canceled_by_user", "denied", "canceled_by_owner"}

\* the buttons the card renders
BookingCard_buttons(status, confirmingCancel, confirmingDelete) ==
    (IF canCancel(status)
     THEN (IF confirmingCancel THEN {"Keep Booking", "Confirm Cancel"}
                               ELSE {"Cancel Booking"})
     ELSE {})
        \cup
    (IF canDelete(status)
     THEN (IF confirmingDelete THEN {"Keep Record", "Confirm Delete"}
                               ELSE {"Delete Record"})
     ELSE {})

Buttons == BookingCard_buttons(cardBookingStatus, isConfirmingCancel, isConfirmingDelete)

\* a card as it mounts
BookingCard_fresh ==
    /\ isConfirmingCancel' = FALSE
    /\ isCanceling' = FALSE
    /\ isConfirmingDelete' = FALSE
    /\ isDeleting' = FALSE
    /\ cancelPending' = FALSE
    /\ deletePending' = FALSE

\* the bookings tab shows the booking
BookingCard_mount(status) ==
    /\ ~bookingCardMounted
    /\ bookingCardMounted' = TRUE
    /\ cardBookingStatus' = status
    /\ BookingCard_fresh
    /\ bookingCardCalls' = <<>>
    /\ UNCHANGED outsideBookingCard

\* the tab is left or the booking leaves the list: calls in flight stay in
\* flight and their state setters have no effect
BookingCard_unmount ==
    /\ bookingCardMounted
    /\ bookingCardMounted' = FALSE
    /\ BookingCard_fresh
    /\ bookingCardCalls' = <<>>
    /\ UNCHANGED <<cardBookingStatus, outsideBookingCard>>

\* the store delivers the booking with another status
bookingChanges(status) ==
    /\ bookingCardMounted
    /\ status # cardBookingStatus
    /\ cardBookingStatus' = status
    /\ bookingCardCalls' = <<>>
    /\ UNCHANGED <<bookingCardMounted, isConfirmingCancel, isCanceling,
                   isConfirmingDelete, isDeleting, cancelPending, deletePending,
                   outsideBookingCard>>

\* a click on one of the rendered buttons that only set state
setIsConfirmingCancel(b) ==
    /\ bookingCardMounted
    /\ IF b THEN "Cancel Booking" \in Buttons
            ELSE "Keep Booking" \in Buttons /\ ~isCanceling
    /\ isConfirmingCancel' = b
    /\ bookingCardCalls' = <<>>
    /\ UNCHANGED <<bookingCardMounted, cardBookingStatus, isCanceling,
                   isConfirmingDelete, isDeleting, cancelPending, deletePending,
                   outsideBookingCard>>

setIsConfirmingDelete(b) ==
    /\ bookingCardMounted
    /\ IF b THEN "Delete Record" \in Buttons
            ELSE "Keep Record" \in Buttons /\ ~isDeleting
    /\ isConfirmingDelete' = b
    /\ bookingCardCalls' = <<>>
    /\ UNCHANGED <<bookingCardMounted, cardBookingStatus, isConfirmingCancel,
                   isCanceling, isDeleting, cancelPending, deletePending,
                   outsideBookingCard>>

\* handleCancel up to its await; the button is disabled while isCanceling
handleCancel ==
    /\ bookingCardMounted
    /\ "Confirm Cancel" \in Buttons /\ ~isCanceling
    /\ isCanceling' = TRUE
    /\ cancelPending' = TRUE
    /\ bookingCardCalls' = << <<"onCancel", cardBookingStatus>> >>
    /\ UNCHANGED <<bookingCardMounted, cardBookingStatus, isConfirmingCancel,
                   isConfirmingDelete, isDeleting, deletePending, outsideBookingCard>>

\* onCancel resolves: the rest of handleCancel
onCancel_resolves ==
    /\ cancelPending
    /\ cancelPending' = FALSE
    /\ isCanceling' = FALSE
    /\ isConfirmingCancel' = FALSE
    /\ bookingCardCalls' = <<>>
    /\ UNCHANGED <<bookingCardMounted, cardBookingStatus, isConfirmingDelete,
                   isDeleting, deletePending, outsideBookingCard>>

\* onCancel rejects: handleCancel has no catch, its state stays
onCancel_rejects ==
    /\ cancelPending
    /\ cancelPending' = FALSE
    /\ bookingCardCalls' = <<>>
    /\ UNCHANGED <<bookingCardMounted, cardBookingStatus, isConfirmingCancel,
                   isCanceling, isConfirmingDelete, isDeleting, deletePending,
                   outsideBookingCard>>

\* handleDelete up to its await; the button is disabled while isDeleting
handleDelete ==
    /\ bookingCardMounted
    /\ "Confirm Delete" \in Buttons /\ ~isDeleting
    /\ isDeleting' = TRUE
    /\ deletePending' = TRUE
    /\ bookingCardCalls' = << <<"onDelete", cardBookingStatus>> >>
    /\ UNCHANGED <<bookingCardMounted, cardBookingStatus, isConfirmingCancel,
                   isCanceling, isConfirmingDelete, cancelPending, outsideBookingCard>>

onDelete_resolves ==
    /\ deletePending
    /\ deletePending' = FALSE
    /\ isDeleting' = FALSE
    /\ isConfirmingDelete' = FALSE
    /\ bookingCardCalls' = <<>>
    /\ UNCHANGED <<bookingCardMounted, cardBookingStatus, isConfirmingCancel,
                   isCanceling, cancelPending, outsideBookingCard>>

onDelete_rejects ==
    /\ deletePending
    /\ deletePending' = FALSE
    /\ bookingCardCalls' = <<>>
    /\ UNCHANGED <<bookingCardMounted, cardBookingStatus, isConfirmingCancel,
                   isCanceling, isConfirmingDelete, isDeleting, cancelPending,
                   outsideBookingCard>>

BookingCardInit ==
    /\ BookingCardIdle
    /\ ParseIdle
    /\ CostIdle
    /\ AppInit
    /\ ApprovalIdle
    /\ EmailIdle
    /\ ToastIdle
    /\ ChatIdle

BookingCardNext ==
    \/ \E status \in BookingStatuses : BookingCard_mount(status)
    \/ BookingCard_unmount
    \/ \E status \in BookingStatuses : bookingChanges(status)
    \/ \E b \in BOOLEAN : setIsConfirmingCancel(b)
    \/ \E b \in BOOLEAN : setIsConfirmingDelete(b)
    \/ handleCancel
    \/ onCancel_resolves
    \/ onCancel_rejects
    \/ handleDelete
    \/ onDelete_resolves
    \/ onDelete_rejects

BookingCardSpec == BookingCardInit /\ [][BookingCardNext]_vars

CancelButtons == {"Cancel Booking", "Keep Booking", "Confirm Cancel"}

DeleteButtons == {"Delete Record", "Keep Record", "Confirm Delete"}

\* C25: the action the booker's card offers is decided by the status and
\* the two actions split the five statuses: the cancel buttons are rendered
\* exactly for pending and confirmed, the delete buttons exactly for
\* canceled_by_user, denied and canceled_by_owner, one group and only one
\* for every status; onCancel is called only on a pending or confirmed
\* booking, onDelete only on one of the three others, and the card calls
\* nothing else.
C25_ActionsPartitionStatuses ==
    [][bookingCardMounted' =>
          /\ cardBookingStatus' \in BookingStatuses
          /\ (Buttons' \cap CancelButtons # {})
                <=> cardBookingStatus' \in {"pending", "confirmed"}
          /\ (Buttons' \cap DeleteButtons # {})
                <=> cardBookingStatus' \in {"canceled_by_user", "denied", "canceled_by_owner"}
          /\ (Buttons' \cap CancelButtons = {}) # (Buttons' \cap DeleteButtons = {})
          /\ Buttons' \subseteq CancelButtons \cup DeleteButtons
          /\ \A i \in 1..Len(bookingCardCalls') :
                \/ /\ bookingCardCalls'[i][1] = "onCancel"
                   /\ cardBookingStatus \in {"pending", "confirmed"}
                \/ /\ bookingCardCalls'[i][1] = "onDelete"
                   /\ cardBookingStatus
                          \in {"canceled_by_user", "denied", "canceled_by_owner"}
      ]_vars

\* the booker asked to cancel, the owner denied the request meanwhile, and
\* the card offers the deletion only
C25_Witness ==
    /\ bookingCardMounted
    /\ isConfirmingCancel
    /\ cardBookingStatus = "denied"
    /\ Buttons = {"Delete Record"}

(***************************************************************************)
(* ChatView: the search form, the Near Me button and the permission modal  *)
(***************************************************************************)

\* the most executeSearch calls that go ahead in one behaviour
MaxSearches == 2

\* the most getCurrentPosition requests waiting for their callback at once
MaxGeo == 2

\* the most messages addSystemChatMessage appends in one behaviour
MaxNotices == 1

Permissions == {"prompt", "granted", "denied"}

\* what the callbacks of a getCurrentPosition request see of the state: the
\* isLoading and permissionStatus of the render that made them
Closures == [loading : BOOLEAN, status : Permissions]

\* GeolocationPositionError codes: PERMISSION_DENIED and the two others
ErrorCodes == {"PERMISSION_DENIED", "POSITION_UNAVAILABLE", "TIMEOUT"}

\* what findParkingSpots resolves with: the model's text, or the error JSON of
\* its catch block; it catches every failure of the request itself, and the
\* log shows either as a message of role 'model'
SearchOutcomes == {"results", "errorJSON"}

Notice == [role |-> "system", call |-> 0]

Notices == Len(SelectSeq(chatMessages, LAMBDA m : m = Notice))

\* addSystemChatMessage(text), the parent's callback
addSystemChatMessage ==
    /\ Notices < MaxNotices
    /\ chatMessages' = Append(chatMessages, Notice)

\* executeSearch with no isLoading in its guard
executeSearch_Unguarded(loadingSeen) ==
    /\ nextSearch <= MaxSearches
    /\ chatMessages' =
           Append(chatMessages, [role |-> "user", call |-> nextSearch])
    /\ locationFilled' = FALSE
    /\ chatLoading' = TRUE
    /\ searchesInFlight' = searchesInFlight \cup {nextSearch}
    /\ nextSearch' = nextSearch + 1

\* executeSearch(query) of a render in which isLoading was loadingSeen; no
\* caller passes an empty query
executeSearch(loadingSeen) ==
    IF loadingSeen
    THEN UNCHANGED <<chatMessages, chatLoading, locationFilled,
                     searchesInFlight, nextSearch>>
    ELSE /\ nextSearch <= MaxSearches
         /\ chatMessages' =
                Append(chatMessages, [role |-> "user", call |-> nextSearch])
         /\ locationFilled' = FALSE
         /\ chatLoading' = TRUE
         /\ searchesInFlight' = searchesInFlight \cup {nextSearch}
         /\ nextSearch' = nextSearch + 1

\* the rest of executeSearch, once findParkingSpots has settled
executeSearch_afterAwait(call, outcome) ==
    /\ chatMessages' =
           Append(chatMessages,
                  [role |-> IF outcome = "rejected" THEN "system" ELSE "model",
                   call |-> call])
    /\ chatLoading' = FALSE

\* fetchLocationAndSearch of the current render
fetchLocationAndSearch ==
    /\ BagCardinality(geoPending) < MaxGeo
    /\ chatLoading' = TRUE
    /\ geoPending' = geoPending (+) SetToBag({[loading |-> chatLoading,
                                                status |-> permissionStatus]})

\* the user types into, or clears, the location fields, which are disabled
\* while isLoading
setLocation(filled) ==
    /\ ~chatLoading
    /\ locationFilled # filled
    /\ locationFilled' = filled
    /\ UNCHANGED <<chatMessages, chatLoading, showPermissionModal,
                   permissionStatus, hasGeolocation, browserPermission,
                   watching, searchesInFlight, nextSearch,
                   geoPending, outsideChat>>

\* the mount effect's navigator.permissions.query resolves; where the browser
\* has no navigator.permissions it never does
permissionsQuery_resolves ==
    /\ ~watching
    /\ watching' = TRUE
    /\ permissionStatus' = browserPermission
    /\ UNCHANGED <<chatMessages, chatLoading, locationFilled,
                   showPermissionModal, hasGeolocation, browserPermission,
                   searchesInFlight, nextSearch, geoPending,
                   outsideChat>>

\* the user changes the site's permission in the browser; result.onchange
browserPermissionChanges(p) ==
    /\ browserPermission # p
    /\ browserPermission' = p
    /\ permissionStatus' = IF watching THEN p ELSE permissionStatus
    /\ UNCHANGED <<chatMessages, chatLoading, locationFilled,
                   showPermissionModal, hasGeolocation, watching, searchesInFlight, nextSearch, geoPending,
                   outsideChat>>

\* the suggestion button of the empty chat
suggestionClick ==
    /\ chatMessages = <<>>
    /\ executeSearch(chatLoading)
    /\ UNCHANGED <<showPermissionModal, permissionStatus, hasGeolocation,
                   browserPermission, watching, geoPending,
                   outsideChat>>

\* the form is submitted
handleFormSearch ==
    /\ ~chatLoading
    /\ IF ~locationFilled
       THEN /\ addSystemChatMessage
            /\ UNCHANGED <<chatLoading, locationFilled, searchesInFlight,
                           nextSearch>>
       ELSE executeSearch(chatLoading)
    /\ UNCHANGED <<showPermissionModal, permissionStatus, hasGeolocation,
                   browserPermission, watching, geoPending,
                   outsideChat>>

\* the Near Me button
handleNearMeSearch ==
    /\ ~chatLoading
    /\ IF ~hasGeolocation
       THEN /\ addSystemChatMessage
            /\ UNCHANGED <<chatLoading, showPermissionModal, geoPending>>
       ELSE IF permissionStatus = "granted"
       THEN /\ fetchLocationAndSearch
            /\ UNCHANGED <<chatMessages, showPermissionModal>>
       ELSE /\ showPermissionModal' = TRUE
            /\ UNCHANGED <<chatMessages, chatLoading, geoPending>>
    /\ UNCHANGED <<locationFilled, permissionStatus, hasGeolocation,
                   browserPermission, watching,
                   searchesInFlight, nextSearch, outsideChat>>

\* handleRequestLocationPermission, the modal's onAllow
handleRequestLocationPermission ==
    /\ showPermissionModal' = FALSE
    /\ fetchLocationAndSearch

\* the permission modal's primary button
PermissionModal_primary ==
    /\ showPermissionModal
    /\ IF permissionStatus = "denied"
       THEN /\ showPermissionModal' = FALSE
            /\ UNCHANGED <<chatLoading, geoPending>>
       ELSE handleRequestLocationPermission
    /\ UNCHANGED <<chatMessages, locationFilled, permissionStatus,
                   hasGeolocation, browserPermission, watching, searchesInFlight, nextSearch, outsideChat>>

\* the modal's backdrop, its X and Maybe Later
PermissionModal_onClose ==
    /\ showPermissionModal
    /\ showPermissionModal' = FALSE
    /\ UNCHANGED <<chatMessages, chatLoading, locationFilled, permissionStatus,
                   hasGeolocation, browserPermission, watching, searchesInFlight, nextSearch, geoPending,
                   outsideChat>>

\* the success callback of a request made in a render with these values
geolocation_success(closure) ==
    /\ BagIn(closure, geoPending)
    /\ browserPermission # "denied"
    /\ executeSearch(closure.loading)
    /\ permissionStatus' = IF closure.status = "prompt"
                           THEN "granted"
                           ELSE permissionStatus
    /\ geoPending' = geoPending (-) SetToBag({closure})
    /\ UNCHANGED <<showPermissionModal, hasGeolocation, browserPermission,
                   watching, outsideChat>>

\* the error callback of a request made in a render with these values
geolocation_error(closure, code) ==
    /\ BagIn(closure, geoPending)
    /\ code = "PERMISSION_DENIED" => browserPermission # "granted"
    /\ permissionStatus' = IF code = "PERMISSION_DENIED"
                           THEN "denied"
                           ELSE permissionStatus
    /\ addSystemChatMessage
    /\ chatLoading' = FALSE
    /\ geoPending' = geoPending (-) SetToBag({closure})
    /\ UNCHANGED <<locationFilled, showPermissionModal, hasGeolocation,
                   browserPermission, watching,
                   searchesInFlight, nextSearch, outsideChat>>

\* findParkingSpots settles for search call
findParkingSpots_settles(call, outcome) ==
    /\ call \in searchesInFlight
    /\ searchesInFlight' = searchesInFlight \ {call}
    /\ executeSearch_afterAwait(call, outcome)
    /\ UNCHANGED <<locationFilled, showPermissionModal, permissionStatus,
                   hasGeolocation, browserPermission, watching, nextSearch, geoPending, outsideChat>>

ChatInit ==
    /\ chatMessages = <<>>
    /\ chatLoading = FALSE
    /\ locationFilled = FALSE
    /\ showPermissionModal = FALSE
    /\ permissionStatus = "prompt"
    /\ hasGeolocation \in BOOLEAN
    /\ browserPermission \in Permissions
    /\ watching = FALSE
    /\ searchesInFlight = {}
    /\ nextSearch = 1
    /\ geoPending = EmptyBag
    /\ ParseIdle
    /\ CostIdle
    /\ AppInit
    /\ ApprovalIdle
    /\ EmailIdle
    /\ ToastIdle
    /\ BookingCardIdle

ChatNext ==
    \/ \E filled \in BOOLEAN : setLocation(filled)
    \/ permissionsQuery_resolves
    \/ \E p \in Permissions : browserPermissionChanges(p)
    \/ suggestionClick
    \/ handleFormSearch
    \/ handleNearMeSearch
    \/ PermissionModal_primary
    \/ PermissionModal_onClose
    \/ \E closure \in Closures : geolocation_success(closure)
    \/ \E closure \in Closures, code \in ErrorCodes :
           geolocation_error(closure, code)
    \/ \E call \in 1..MaxSearches, outcome \in SearchOutcomes :
           findParkingSpots_settles(call, outcome)

ChatSpec == ChatInit /\ [][ChatNext]_vars

\* the positions of the messages of search call in the log, by role
PositionsOf(log, call, roles) ==
    {k \in 1..Len(log) : log[k].call = call /\ log[k].role \in roles}

\* every search that went ahead has one user message, and one response after
\* it once it has settled and none before
Paired(log, started, inFlight) ==
    /\ \A k \in 1..Len(log) : log[k].call \in started \cup {0}
    /\ \A call \in started :
           /\ Cardinality(PositionsOf(log, call, {"user"})) = 1
           /\ Cardinality(PositionsOf(log, call, {"model", "system"}))
                  = IF call \in inFlight THEN 0 ELSE 1
           /\ \A u \in PositionsOf(log, call, {"user"}),
                 r \in PositionsOf(log, call, {"model", "system"}) : u < r

\* the log only grows, one message at a time, at its end
AppendOnly ==
    \/ chatMessages' = chatMessages
    \/ /\ Len(chatMessages') = Len(chatMessages) + 1
       /\ SubSeq(chatMessages', 1, Len(chatMessages)) = chatMessages

\* a step that calls executeSearch from a render whose isLoading was seen
SearchCallSeeing(seen) ==
    \/ suggestionClick /\ chatLoading = seen
    \/ handleFormSearch /\ locationFilled /\ chatLoading = seen
    \/ \E closure \in Closures :
           geolocation_success(closure) /\ closure.loading = seen

\* a step that calls executeSearch
SearchCall == \E seen \in BOOLEAN : SearchCallSeeing(seen)

\* the step appends the user message of a new search and starts it
SearchGoesAhead ==
    /\ Len(chatMessages') = Len(chatMessages) + 1
    /\ chatMessages'[Len(chatMessages')].role = "user"
    /\ chatMessages'[Len(chatMessages')].call = nextSearch
    /\ searchesInFlight' = searchesInFlight \cup {nextSearch}
    /\ nextSearch \notin searchesInFlight
    /\ chatLoading'

\* the step appends the response of a search in flight and ends the loading
SearchSettles ==
    /\ Len(chatMessages') = Len(chatMessages) + 1
    /\ chatMessages'[Len(chatMessages')].role \in {"model", "system"}
    /\ chatMessages'[Len(chatMessages')].call \in searchesInFlight
    /\ searchesInFlight' =
           searchesInFlight \ {chatMessages'[Len(chatMessages')].call}
    /\ ~chatLoading'

\* C26 as stated: the chat log is append-only and paired, and a call of
\* executeSearch made while the isLoading state is true changes nothing
C26_CallWhileLoadingChangesNothing ==
    [][/\ AppendOnly
       /\ Paired(chatMessages', 1..(nextSearch' - 1), searchesInFlight')
       /\ (SearchCall /\ chatLoading)
              => UNCHANGED <<chatMessages, searchesInFlight, chatLoading>>
       /\ (SearchCall /\ ~chatLoading) => SearchGoesAhead
       /\ searchesInFlight' # searchesInFlight
              => (SearchGoesAhead \/ SearchSettles)
      ]_vars

\* C26 amended: the chat log is append-only and paired; a call of
\* executeSearch changes nothing when the render it was made in had isLoading
\* true, and otherwise appends one user message and starts one search, whose
\* settling appends one response after it and sets isLoading to false
C26_ChatLogAppendOnlyAndPaired ==
    [][/\ AppendOnly
       /\ Paired(chatMessages', 1..(nextSearch' - 1), searchesInFlight')
       /\ SearchCallSeeing(TRUE)
              => UNCHANGED <<chatMessages, searchesInFlight, chatLoading>>
       /\ SearchCallSeeing(FALSE) => SearchGoesAhead
       /\ searchesInFlight' # searchesInFlight
              => (SearchGoesAhead \/ SearchSettles)
      ]_vars

\* a search made by the Near Me callback while isLoading was true has its
\* response in the log
C26_Witness ==
    /\ chatLoading
    /\ searchesInFlight = {2}
    /\ \E closure \in BagToSet(geoPending) : closure.loading
    /\ PositionsOf(chatMessages, 1, {"model"}) # {}

\* a step that is the success callback of a Near Me request
NearMeSucceeds == \E closure \in Closures : geolocation_success(closure)

\* a step that is the error callback of a Near Me request
NearMeFails ==
    \E closure \in Closures, code \in ErrorCodes : geolocation_error(closure, code)

\* the step appends one system message
NoticeAppended ==
    /\ Len(chatMessages') = Len(chatMessages) + 1
    /\ chatMessages'[Len(chatMessages')] = Notice

\* no location request and no search is waiting for its result
NothingPending == geoPending = EmptyBag /\ searchesInFlight = {}

\* C27: every Near Me request completes: the success callback submits the
\* near-me query (its user message is appended and findParkingSpots is
\* called), the error callback appends a system message, and isLoading is
\* false again once nothing is pending
C27_NearMeRequestCompletes ==
    [][/\ NearMeSucceeds => SearchGoesAhead
       /\ NearMeFails => NoticeAppended
       /\ NothingPending' => ~chatLoading'
      ]_vars

\* the step issues a getCurrentPosition request
LocationRequested == BagCardinality(geoPending') > BagCardinality(geoPending)

\* a step that is the error callback with code PERMISSION_DENIED
PermissionDenied ==
    \E closure \in Closures : geolocation_error(closure, "PERMISSION_DENIED")

\* C28: a location request is issued only with consent: Near Me requests the
\* location itself only when permissionStatus is 'granted' and otherwise
\* only opens the modal; with 'denied' the modal's primary button closes it
\* and requests nothing; PERMISSION_DENIED sets 'denied'; a successful fix
\* moves 'prompt' to 'granted' and leaves 'denied' as it is
C28_LocationOnlyWithConsent ==
    [][/\ LocationRequested => permissionStatus # "denied"
       /\ handleNearMeSearch =>
              /\ LocationRequested => permissionStatus = "granted"
              /\ (hasGeolocation /\ permissionStatus # "granted")
                     => (showPermissionModal' /\ ~LocationRequested)
       /\ (PermissionModal_primary /\ permissionStatus = "denied")
              => (~showPermissionModal' /\ ~LocationRequested)
       /\ PermissionDenied => permissionStatus' = "denied"
       /\ (NearMeSucceeds /\ permissionStatus = "prompt")
              => permissionStatus' = "granted"
       /\ (NearMeSucceeds /\ permissionStatus = "denied")
              => permissionStatus' = "denied"
      ]_vars

(***************************************************************************)
(* Toast: the 4 s timer of the effect and the 300 ms timeout of handleClose *)
(***************************************************************************)

\* the most messages the parent shows in one behaviour
MaxToasts == 3

\* the most handleClose calls in one behaviour
MaxCloses == 3

\* the cleanup of the effect: clearTimeout(timer)
effectCleanup ==
    /\ autoTimer' = 0
    /\ UNCHANGED closePending

\* the effect for a new message or type: setVisible(true) and the 4 s timer
effect(message) ==
    /\ toastVisible' = TRUE
    /\ autoTimer' = message

\* handleClose: setVisible(false); setTimeout(onClose, 300)
handleClose ==
    /\ Len(onCloseCalls) + BagCardinality(closePending) < MaxCloses
    /\ toastVisible' = FALSE
    /\ closePending' = closePending (+) SetToBag({toastShown})

\* the parent renders the Toast with a message
Toast_mount ==
    /\ ~toastMounted
    /\ nextToast <= MaxToasts
    /\ toastMounted' = TRUE
    /\ toastShown' = nextToast
    /\ nextToast' = nextToast + 1
    /\ effect(nextToast)
    /\ UNCHANGED <<closePending, onCloseCalls, lastClose, outsideToast>>

\* the parent changes the message or the type of the mounted Toast
Toast_propsChange ==
    /\ toastMounted
    /\ nextToast <= MaxToasts
    /\ toastShown' = nextToast
    /\ nextToast' = nextToast + 1
    /\ effect(nextToast)
    /\ UNCHANGED <<toastMounted, closePending, onCloseCalls, lastClose,
                   outsideToast>>

\* the parent stops rendering the Toast
Toast_unmount ==
    /\ toastMounted
    /\ toastMounted' = FALSE
    /\ toastShown' = 0
    /\ toastVisible' = FALSE
    /\ effectCleanup
    /\ UNCHANGED <<onCloseCalls, lastClose, nextToast, outsideToast>>

\* the close button
closeButton ==
    /\ toastMounted
    /\ handleClose
    /\ UNCHANGED <<toastMounted, toastShown, autoTimer, onCloseCalls, lastClose,
                   nextToast, outsideToast>>

\* the 4 s timer fires; a 300 ms timeout started before the timer was set
\* fires first
autoTimer_fires ==
    /\ autoTimer # 0
    /\ \A message \in BagToSet(closePending) : message >= autoTimer
    /\ handleClose
    /\ autoTimer' = 0
    /\ UNCHANGED <<toastMounted, toastShown, onCloseCalls, lastClose, nextToast,
                   outsideToast>>

\* a 300 ms timeout fires: onClose()
closeTimeout_fires(message) ==
    /\ BagIn(message, closePending)
    /\ closePending' = closePending (-) SetToBag({message})
    /\ onCloseCalls' = Append(onCloseCalls, message)
    /\ lastClose' = [for |-> message, shown |-> toastShown]
    /\ UNCHANGED <<toastMounted, toastShown, toastVisible, autoTimer, nextToast,
                   outsideToast>>

ToastInit ==
    /\ ToastIdle
    /\ ParseIdle
    /\ CostIdle
    /\ AppInit
    /\ ApprovalIdle
    /\ EmailIdle
    /\ BookingCardIdle
    /\ ChatIdle

ToastNext ==
    \/ Toast_mount
    \/ Toast_propsChange
    \/ Toast_unmount
    \/ closeButton
    \/ autoTimer_fires
    \/ \E message \in 1..MaxToasts : closeTimeout_fires(message)

ToastSpec == ToastInit /\ [][ToastNext]_vars

\* the number of onClose calls of the closes started for message
CallsFor(message) == Len(SelectSeq(onCloseCalls, LAMBDA m : m = message))

\* C29: a Toast's dismissal belongs to the message it was scheduled for:
\* onClose is called at most once for each displayed message, and no delayed
\* onClose fires while a later message is shown
C29_DismissalBelongsToItsMessage ==
    /\ \A message \in 1..MaxToasts : CallsFor(message) <= 1
    /\ lastClose.shown \in {0, lastClose.for}

====
